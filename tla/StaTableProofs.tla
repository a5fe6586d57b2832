--------------------------- MODULE StaTableProofs ---------------------------
(***************************************************************************)
(* Proofs about StaTable for every number of stations, readers and mac     *)
(* ids; from the line on, about RxPath (instance P), the receive path of   *)
(* one station, for every cipher, sequence space, number of fragments,     *)
(* MSDUs and keys.  The two share no state.                                *)
(***************************************************************************)
EXTENDS StaTable, RxPathState, Sequences, FiniteSetTheorems, WellFoundedInduction, TLAPS

(***************************************************************************)
(* The inductive invariant                                                 *)
(***************************************************************************)

\* What a context may refer to: a station in the table, or one whose grace
\* period waits for that context.
Pinned(c, s) ==
  /\ c \in rcu
  /\ where[s] \in {"linked", "unlinked"}
  /\ where[s] = "unlinked" => c \in gp[s]

\* The station of a published bss may be deleted.
Loose == rejoined \/ fw_bss

\* Every context may refer to what it found in the table, and to what it
\* took from the bss.
HeldPinned ==
  /\ \A c \in Ctx :
       held[c] # None /\ (c \in from_bss => ~Loose) => Pinned(c, held[c])
  /\ \A c \in Writers : held[c] # None => Pinned(c, held[c])

\* The station of a published bss is in the table and nobody who could take
\* it out is busy; a reader that came in while the bss was published may
\* still refer to its station.
BssPinned ==
  ~Loose =>
    /\ connect_bss = "set" =>
         /\ Idle("proc") /\ Idle("work") /\ bss_sta # None
         /\ where[bss_sta] = "linked" /\ mac_id[bss_sta] = BSS_MACID
    /\ \A r \in Readers : r \in rcu => bss_sta # None /\ Pinned(r, bss_sta)

\* What the writers work on: a station about to be linked is not in the
\* table yet; the connect work allocates only BSS_MACID, its end nothing,
\* and they are one work item; the firmware's events leave BSS_MACID alone
\* until fw_bss says otherwise.
WritersApart ==
  /\ \A c \in Writers : new[c] # None => where[new[c]] = "new"
  /\ \A c, d \in Writers : c # d /\ new[c] # None => new[c] # new[d]
  /\ new["proc"] # None => mac_id[new["proc"]] = BSS_MACID /\ Idle("work")
  /\ new["work"] = None
  /\ ~fw_bss =>
       /\ BSS_MACID \notin todo["irq"]
       /\ held["irq"] # None => mac_id[held["irq"]] # BSS_MACID
       /\ new["irq"] # None => mac_id[new["irq"]] # BSS_MACID

\* While a writer replaces a station, the old one is the only one in the
\* table with that mac id, and there is none once its deletion is over,
\* unless another writer links one with the same id.
Replaces ==
  \A c \in Writers : new[c] # None =>
    /\ todo[c] \subseteq {mac_id[new[c]]}
    /\ held[c] # None =>
         mac_id[held[c]] = mac_id[new[c]] /\ mac_id[new[c]] \in todo[c]
    /\ ~overlap =>
         /\ held[c] # None =>
              \A t \in Linked : mac_id[t] = mac_id[new[c]] => t = held[c]
         /\ mac_id[new[c]] \notin todo[c] =>
              \A t \in Linked : mac_id[t] # mac_id[new[c]]
         /\ \A d \in Writers : d # c /\ new[d] # None =>
              mac_id[new[d]] # mac_id[new[c]]

\* A station that was not unlinked was not given to call_rcu.
CallsCounted ==
  \A s \in Sta :
    /\ where[s] \in {"unused", "new", "linked"} => calls[s] = 0
    /\ where[s] \in {"unlinked", "freed"} => calls[s] \in {1, 2}

\* sta_num is the number of stations in the table, less one for each that
\* was unlinked twice.
Twice == {s \in Sta : calls[s] = 2}
NumCounts == sta_num = Cardinality(Linked) - Cardinality(Twice)

\* TypeOK without the range of sta_num, which follows from NumCounts; a
\* station of the table has a mac id.
ShapeOK ==
  /\ where \in [Sta -> {"unused", "new", "linked", "unlinked", "freed"}]
  /\ mac_id \in [Sta -> Ids \cup {None}]
  /\ sta_num \in Int
  /\ connect_bss \in {"set", "null"}
  /\ bss_sta \in Sta \cup {None}
  /\ todo \in [Writers -> SUBSET Ids]
  /\ new \in [Writers -> Sta \cup {None}]
  /\ held \in [Ctx -> Sta \cup {None}]
  /\ rcu \in SUBSET Ctx
  /\ gp \in [Sta -> SUBSET Ctx]
  /\ from_bss \in SUBSET Readers
  /\ calls \in [Sta -> 0..2]
  /\ rejoined \in BOOLEAN /\ fw_bss \in BOOLEAN /\ overlap \in BOOLEAN
  /\ \A s \in Sta : where[s] \in {"new", "linked"} => mac_id[s] \in Ids

IInv ==
  /\ ShapeOK /\ HeldPinned /\ BssPinned /\ WritersApart /\ Replaces
  /\ CallsCounted /\ NumCounts /\ UniqueMacId

(***************************************************************************)
(* Lemmas                                                                  *)
(***************************************************************************)

\* The id that r92su_sta_del is called for next is one that is left to do.
LEMMA MinOfIds ==
  ASSUME NEW S \in SUBSET Ids, S # {}
  PROVE  Min(S) \in S
<1>1. S \subseteq Nat
  BY StaTableAssumption DEF Ids
<1>2. PICK x \in S : \A y \in S : ~(<<y, x>> \in OpToRel(<, Nat))
  BY <1>1, NatLessThanWellFounded, WFMin
<1>3. \A y \in S : x <= y
  <2>1. ASSUME NEW y \in S, y < x PROVE <<y, x>> \in OpToRel(<, Nat)
    BY <1>1, <2>1, Zenon DEF OpToRel
  <2>2. \A y \in S : ~(y < x)
    BY <1>2, <2>1, Zenon
  <2>3. QED
    BY <1>1, <2>2
<1>4. QED
  BY <1>3 DEF Min

\* The sets that sta_num counts are finite.
LEMMA FiniteTable ==
  /\ IsFiniteSet(Linked) /\ Cardinality(Linked) \in 0..Cardinality(Sta)
  /\ IsFiniteSet(Twice) /\ Cardinality(Twice) \in 0..Cardinality(Sta)
  /\ Cardinality(Sta) \in Nat
<1>1. Linked \in SUBSET Sta /\ Twice \in SUBSET Sta
  BY DEF Linked, Twice
<1>2. QED
  BY <1>1, StaTableAssumption, FS_Subset, FS_CardinalityType

\* What a context holds changes from a station, or None, to another.
LEMMA HeldUpdate ==
  ASSUME ShapeOK
  PROVE  /\ held \in [Ctx -> Sta \cup {None}]
         /\ \A c \in Ctx, s \in Sta :
              [held EXCEPT ![c] = s] \in [Ctx -> Sta \cup {None}]
  BY DEF ShapeOK

\* Initially the table is empty.
LEMMA InitIInv == Init => IInv
<1> SUFFICES ASSUME Init PROVE IInv
  OBVIOUS
<1>1. HeldPinned /\ BssPinned /\ WritersApart /\ Replaces /\ CallsCounted
  BY StaTableAssumption
     DEF Init, HeldPinned, BssPinned, WritersApart, Replaces,
         CallsCounted, Loose, Idle, Writers, Ctx
<1>0. ShapeOK
  <2>1. rejoined \in BOOLEAN /\ fw_bss \in BOOLEAN /\ overlap \in BOOLEAN
    BY DEF Init
  <2>2. QED
    BY <2>1, StaTableAssumption DEF Init, ShapeOK, Writers, Ctx
<1>2. Linked = {} /\ Twice = {}
  BY DEF Init, Linked, Twice
<1>3. NumCounts /\ UniqueMacId
  BY <1>2, FS_EmptySet DEF Init, NumCounts, UniqueMacId
<1>4. QED
  BY <1>0, <1>1, <1>3 DEF IInv

\* A writer looks a station up.
LEMMA FindStep ==
  ASSUME IInv, NEW c \in Writers,
         StaDelFind(c)
  PROVE  IInv'
<1> USE StaTableAssumption DEF IInv, history, Loose, Ids, Writers, Ctx, StaDelFind
<1>0. todo[c] # {} => Min(todo[c]) \in todo[c]
  BY MinOfIds DEF ShapeOK
<1>1. ShapeOK'
  <2>1. todo' \in [Writers -> SUBSET Ids]
    BY DEF ShapeOK
  <2>2. \/ UNCHANGED <<held, rcu>>
        \/ \E s \in Sta : held' = [held EXCEPT ![c] = s] /\ rcu' = rcu \cup {c}
    BY DEF Linked
  <2>3. held' \in [Ctx -> Sta \cup {None}]
    BY <2>2, HeldUpdate
  <2>4. rcu' \in SUBSET Ctx
    BY <2>2 DEF ShapeOK
  <2>5. QED
    BY <2>1, <2>3, <2>4 DEF ShapeOK
<1>2. HeldPinned'
  BY <1>0 DEF ShapeOK, HeldPinned, Pinned, Linked
<1>3. BssPinned'
  BY <1>0 DEF ShapeOK, BssPinned, Pinned, Idle
<1>4. WritersApart'
  BY <1>0 DEF ShapeOK, WritersApart, Idle, Linked
<1>5. Replaces'
  BY <1>0 DEF ShapeOK, Replaces, UniqueMacId, Linked
<1>6. CallsCounted'
  BY <1>0 DEF ShapeOK, CallsCounted, Linked
<1>7. UniqueMacId'
  BY <1>0 DEF UniqueMacId, Linked
<1>8. NumCounts'
  <2>1. Linked' = Linked /\ Twice' = Twice
    BY DEF Linked, Twice, ShapeOK
  <2>2. QED
    BY <2>1 DEF NumCounts
<1>9. QED
  BY <1>1, <1>2, <1>3, <1>4, <1>5, <1>6, <1>7, <1>8

\* A writer unlinks the station it found, perhaps for the second time.
LEMMA UnlinkStep ==
  ASSUME IInv, UnlinkedOnce, NEW c \in Writers,
         StaDelUnlink(c)
  PROVE  IInv'
<1> USE StaTableAssumption DEF IInv, history, Loose, Ids, Writers, Ctx, StaDelUnlink
<1>1. ShapeOK'
  BY DEF ShapeOK
<1>2. HeldPinned'
  BY DEF ShapeOK, HeldPinned, Pinned
<1>3. BssPinned'
  BY DEF ShapeOK, BssPinned, WritersApart, Pinned, Idle
<1>4. WritersApart'
  BY DEF ShapeOK, HeldPinned, WritersApart, Pinned, Idle
<1>5. Replaces'
  BY DEF ShapeOK, Replaces, Linked
<1>6. CallsCounted'
  BY DEF ShapeOK, CallsCounted
<1>7. UniqueMacId'
  BY DEF UniqueMacId, Linked
<1>8. NumCounts'
  <2> DEFINE s == held[c]
  <2>0. s \in Sta /\ where[s] \in {"linked", "unlinked"}
    BY DEF ShapeOK, HeldPinned, Pinned
  <2>1. CASE where[s] = "linked"
    <3>1. Linked' = Linked \ {s} /\ s \in Linked /\ Twice' = Twice
      BY <2>0, <2>1 DEF Linked, Twice, ShapeOK, CallsCounted
    <3>2. Cardinality(Linked') = Cardinality(Linked) - 1
      BY <3>1, FiniteTable, FS_RemoveElement
    <3>3. QED
      BY <3>1, <3>2, FiniteTable DEF NumCounts
  <2>2. CASE where[s] = "unlinked"
    <3>1. Linked' = Linked /\ Twice' = Twice \cup {s} /\ s \notin Twice
      BY <2>0, <2>2 DEF Linked, Twice, ShapeOK, CallsCounted, UnlinkedOnce
    <3>2. Cardinality(Twice') = Cardinality(Twice) + 1
      BY <3>1, FiniteTable, FS_AddElement
    <3>3. QED
      BY <3>1, <3>2, FiniteTable DEF NumCounts
  <2>3. QED
    BY <2>0, <2>1, <2>2
<1>9. QED
  BY <1>1, <1>2, <1>3, <1>4, <1>5, <1>6, <1>7, <1>8

\* A writer links the station it has allocated.
LEMMA LinkStep ==
  ASSUME IInv, NEW c \in Writers,
         StaAllocLink(c)
  PROVE  IInv'
<1> USE StaTableAssumption DEF IInv, history, Loose, Ids, Writers, Ctx, StaAllocLink
<1>1. ShapeOK'
  BY DEF ShapeOK, WritersApart
<1>2. HeldPinned'
  BY DEF ShapeOK, HeldPinned, Pinned
<1>3. BssPinned'
  BY DEF ShapeOK, BssPinned, WritersApart, Replaces, Pinned, Idle
<1>4. WritersApart'
  BY DEF ShapeOK, WritersApart, Idle
<1>5. Replaces'
  BY DEF ShapeOK, WritersApart, Replaces, Linked
<1>6. CallsCounted'
  BY DEF WritersApart, CallsCounted
<1>7. UniqueMacId'
  BY DEF Replaces, UniqueMacId, Linked
<1>8. NumCounts'
  <2>1. Linked' = Linked \cup {new[c]} /\ new[c] \notin Linked
    BY DEF Linked, ShapeOK, WritersApart
  <2>2. Twice' = Twice
    BY DEF Twice
  <2>3. Cardinality(Linked') = Cardinality(Linked) + 1
    BY <2>1, FiniteTable, FS_AddElement
  <2>4. QED
    BY <2>2, <2>3, FiniteTable DEF NumCounts
<1>9. QED
  BY <1>1, <1>2, <1>3, <1>4, <1>5, <1>6, <1>7, <1>8

\* A writer allocates a station and starts to delete its predecessor.
LEMMA AllocStep ==
  ASSUME IInv, NEW c \in Writers, NEW id \in Ids,
         \/ /\ c = "irq" /\ id \in FwIds
            /\ fw_bss' = (fw_bss \/ id = BSS_MACID) /\ UNCHANGED rejoined
         \/ /\ c = "proc" /\ id = BSS_MACID /\ Idle("work")
            /\ rejoined' = (rejoined \/ connect_bss = "set") /\ UNCHANGED fw_bss,
         StaAlloc(c, id)
  PROVE  IInv'
<1> USE StaTableAssumption DEF IInv, Loose, Ids, Writers, Ctx, StaAlloc
<1>0. PICK s \in Sta :
        /\ where[s] = "unused"
        /\ where' = [where EXCEPT ![s] = "new"]
        /\ new' = [new EXCEPT ![c] = s]
        /\ mac_id' = [mac_id EXCEPT ![s] = id]
  OBVIOUS
<1>l. Linked' = Linked /\ Twice' = Twice
  BY <1>0 DEF Linked, Twice, ShapeOK
<1>1. ShapeOK'
  <2>1. (overlap' \in BOOLEAN) /\ (fw_bss' \in BOOLEAN) /\ (rejoined' \in BOOLEAN)
    BY Zenon DEF ShapeOK
  <2>2. QED
    BY <1>0, <2>1 DEF ShapeOK
<1>2. HeldPinned'
  BY <1>0 DEF ShapeOK, HeldPinned, Pinned
<1>3. BssPinned'
  BY <1>0 DEF ShapeOK, BssPinned, Pinned, Idle
<1>4. WritersApart'
  <2>1. \A d \in Writers : new[d] # None => new[d] # s /\ mac_id'[new[d]] = mac_id[new[d]]
    BY <1>0 DEF ShapeOK, WritersApart
  <2>2. \A d \in Writers : held[d] # None => held[d] # s /\ mac_id'[held[d]] = mac_id[held[d]]
    BY <1>0 DEF ShapeOK, HeldPinned, Pinned
  <2>3. /\ new'[c] = s /\ mac_id'[s] = id /\ todo'[c] = {id} /\ where'[s] = "new"
        /\ new[c] = None /\ held[c] = None /\ held' = held
        /\ \A d \in Writers : d # c => new'[d] = new[d] /\ todo'[d] = todo[d]
        /\ \A t \in Sta : t # s => where'[t] = where[t]
    BY <1>0 DEF ShapeOK, Idle
  <2>4. /\ \A d \in Writers : new'[d] # None => where'[new'[d]] = "new"
        /\ \A d, e \in Writers : d # e /\ new'[d] # None => new'[d] # new'[e]
    BY <2>1, <2>3 DEF ShapeOK, WritersApart
  <2>5. /\ new'["proc"] # None => mac_id'[new'["proc"]] = BSS_MACID /\ Idle("work")'
        /\ new'["work"] = None
    BY <2>1, <2>3 DEF WritersApart, Idle
  <2>6. ~fw_bss' =>
          /\ BSS_MACID \notin todo'["irq"]
          /\ held'["irq"] # None => mac_id'[held'["irq"]] # BSS_MACID
          /\ new'["irq"] # None => mac_id'[new'["irq"]] # BSS_MACID
    <3>1. ~fw_bss' => ~fw_bss /\ (c = "irq" => id # BSS_MACID)
      OBVIOUS
    <3>2. ~fw_bss => BSS_MACID \notin todo["irq"]
      BY DEF WritersApart
    <3>3. ~fw_bss /\ held["irq"] # None => mac_id[held["irq"]] # BSS_MACID
      BY DEF WritersApart
    <3>4. ~fw_bss /\ new["irq"] # None => mac_id[new["irq"]] # BSS_MACID
      BY DEF WritersApart
    <3>5. ~fw_bss' => BSS_MACID \notin todo'["irq"]
      BY <3>1, <3>2, <2>3
    <3>6. ~fw_bss' /\ held'["irq"] # None => mac_id'[held'["irq"]] # BSS_MACID
      BY <3>1, <3>3, <2>2, <2>3
    <3>7. ~fw_bss' /\ new'["irq"] # None => mac_id'[new'["irq"]] # BSS_MACID
      BY <3>1, <3>4, <2>1, <2>3
    <3>8. QED
      BY <3>5, <3>6, <3>7
  <2>7. QED
    BY <2>4, <2>5, <2>6 DEF WritersApart
<1>5. Replaces'
  <2>0. \A d \in Writers : new[d] # None => new[d] # s /\ mac_id'[new[d]] = mac_id[new[d]]
    BY <1>0 DEF ShapeOK, WritersApart
  <2>1. \A d \in Writers : held[d] # None => held[d] # s /\ mac_id'[held[d]] = mac_id[held[d]]
    BY <1>0 DEF ShapeOK, HeldPinned, Pinned
  <2>2. \A t \in Linked : mac_id'[t] = mac_id[t]
    BY <1>0 DEF ShapeOK, Linked
  <2>3. ~overlap' =>
          /\ ~overlap
          /\ \A d \in Writers : new[d] # None => mac_id[new[d]] # id
    BY DEF Allocating
  <2>4. /\ new'[c] = s /\ mac_id'[s] = id /\ todo'[c] = {id}
        /\ new[c] = None /\ held'[c] = None /\ held' = held
        /\ \A d \in Writers : d # c => new'[d] = new[d] /\ todo'[d] = todo[d]
    BY <1>0 DEF ShapeOK, Idle
  <2> SUFFICES ASSUME NEW d \in Writers, new'[d] # None
               PROVE  /\ todo'[d] \subseteq {mac_id'[new'[d]]}
                      /\ held'[d] # None =>
                           mac_id'[held'[d]] = mac_id'[new'[d]] /\ mac_id'[new'[d]] \in todo'[d]
                      /\ ~overlap' =>
                           /\ held'[d] # None =>
                                \A t \in Linked' : mac_id'[t] = mac_id'[new'[d]] => t = held'[d]
                           /\ mac_id'[new'[d]] \notin todo'[d] =>
                                \A t \in Linked' : mac_id'[t] # mac_id'[new'[d]]
                           /\ \A e \in Writers : e # d /\ new'[e] # None =>
                                mac_id'[new'[e]] # mac_id'[new'[d]]
    BY DEF Replaces
  <2>5. CASE d = c
    BY <1>l, <2>0, <2>3, <2>4, <2>5
  <2>6. CASE d # c
    BY <1>l, <2>0, <2>1, <2>2, <2>3, <2>4, <2>6 DEF Replaces
  <2>7. QED
    BY <2>5, <2>6
<1>6. CallsCounted'
  BY <1>0 DEF ShapeOK, CallsCounted
<1>7. UniqueMacId'
  BY <1>0, <1>l DEF ShapeOK, UniqueMacId, Linked
<1>8. NumCounts'
  BY <1>l DEF NumCounts
<1>9. QED
  BY <1>1, <1>2, <1>3, <1>4, <1>5, <1>6, <1>7, <1>8

\* The firmware reports a station gone.
LEMMA DelEventStep ==
  ASSUME IInv, NEW s \in Sta,
         c2h_del_sta_event(s)
  PROVE  IInv'
<1> USE StaTableAssumption DEF IInv, history, Loose, Ids, Writers, Ctx, c2h_del_sta_event
<1>1. ShapeOK'
  <2>1. (fw_bss' \in BOOLEAN) /\ (rejoined' \in BOOLEAN)
    BY Zenon DEF ShapeOK
  <2>2. QED
    BY <2>1 DEF ShapeOK, Linked
<1>2. HeldPinned'
  BY DEF HeldPinned, Pinned
<1>3. BssPinned'
  BY DEF ShapeOK, BssPinned, WritersApart, Pinned, Idle
<1>4. WritersApart'
  BY DEF ShapeOK, WritersApart, Idle
<1>5. Replaces'
  BY DEF Replaces, Idle, Linked
<1>6. CallsCounted'
  BY DEF CallsCounted
<1>7. UniqueMacId'
  BY DEF UniqueMacId, Linked
<1>8. NumCounts'
  <2>1. Linked' = Linked /\ Twice' = Twice
    BY DEF Linked, Twice, ShapeOK
  <2>2. QED
    BY <2>1 DEF NumCounts
<1>9. QED
  BY <1>1, <1>2, <1>3, <1>4, <1>5, <1>6, <1>7, <1>8

\* A join failed.
LEMMA JoinFailsStep ==
  ASSUME IInv, r92su_bss_connect_fails
  PROVE  IInv'
<1> USE StaTableAssumption DEF IInv, history, Loose, Ids, Writers, Ctx, r92su_bss_connect_fails
<1>1. ShapeOK'
  <2>1. (fw_bss' \in BOOLEAN) /\ (rejoined' \in BOOLEAN)
    BY Zenon DEF ShapeOK
  <2>2. QED
    BY <2>1 DEF ShapeOK, Linked
<1>2. HeldPinned'
  BY DEF HeldPinned, Pinned
<1>3. BssPinned'
  BY DEF ShapeOK, BssPinned, WritersApart, Pinned, Idle
<1>4. WritersApart'
  BY DEF ShapeOK, WritersApart, Idle
<1>5. Replaces'
  BY DEF Replaces, Idle, Linked
<1>6. CallsCounted'
  BY DEF CallsCounted
<1>7. UniqueMacId'
  BY DEF UniqueMacId, Linked
<1>8. NumCounts'
  <2>1. Linked' = Linked /\ Twice' = Twice
    BY DEF Linked, Twice, ShapeOK
  <2>2. QED
    BY <2>1 DEF NumCounts
<1>9. QED
  BY <1>1, <1>2, <1>3, <1>4, <1>5, <1>6, <1>7, <1>8

\* The bss is unpublished before its station goes.
LEMMA LeaveStep ==
  ASSUME IInv, NEW ids \in SUBSET Ids,
         LeaveBss(ids)
  PROVE  IInv'
<1> USE StaTableAssumption DEF IInv, history, Loose, Ids, Writers, Ctx, LeaveBss
<1>1. ShapeOK'
  BY DEF ShapeOK
<1>2. HeldPinned'
  BY DEF HeldPinned, Pinned
<1>3. BssPinned'
  BY DEF BssPinned, Pinned
<1>4. WritersApart'
  BY DEF ShapeOK, WritersApart, Idle
<1>5. Replaces'
  BY DEF Replaces, Idle, Linked
<1>6. CallsCounted'
  BY DEF CallsCounted
<1>7. UniqueMacId'
  BY DEF UniqueMacId, Linked
<1>8. NumCounts'
  <2>1. Linked' = Linked /\ Twice' = Twice
    BY DEF Linked, Twice, ShapeOK
  <2>2. QED
    BY <2>1 DEF NumCounts
<1>9. QED
  BY <1>1, <1>2, <1>3, <1>4, <1>5, <1>6, <1>7, <1>8

\* A reader enters while the bss is published, hence in the table.
LEMMA EnterStep ==
  ASSUME IInv, NEW r \in Readers,
         ReaderEnters(r)
  PROVE  IInv'
<1> USE StaTableAssumption DEF IInv, history, Loose, Ids, Writers, Ctx, ReaderEnters
<1>1. ShapeOK'
  BY DEF ShapeOK
<1>2. HeldPinned'
  BY DEF HeldPinned, Pinned
<1>3. BssPinned'
  BY DEF BssPinned, Pinned, Idle
<1>4. WritersApart'
  BY DEF ShapeOK, WritersApart, Idle
<1>5. Replaces'
  BY DEF Replaces, Linked
<1>6. CallsCounted'
  BY DEF CallsCounted
<1>7. UniqueMacId'
  BY DEF UniqueMacId, Linked
<1>8. NumCounts'
  <2>1. Linked' = Linked /\ Twice' = Twice
    BY DEF Linked, Twice, ShapeOK
  <2>2. QED
    BY <2>1 DEF NumCounts
<1>9. QED
  BY <1>1, <1>2, <1>3, <1>4, <1>5, <1>6, <1>7, <1>8

\* A reader picks up a station of the table or of the bss.
LEMMA LookStep ==
  ASSUME IInv, NEW r \in Readers,
         ReaderLooks(r)
  PROVE  IInv'
<1> USE StaTableAssumption DEF IInv, history, Loose, Ids, Writers, Ctx, ReaderLooks
<1>0. /\ held' = [held EXCEPT ![r] = held'[r]]
      /\ \/ held'[r] \in Linked /\ from_bss' = from_bss
         \/ held'[r] = bss_sta /\ from_bss' = from_bss \cup {r}
  BY DEF ShapeOK
<1>w. \A c \in Writers : held'[c] = held[c]
  BY <1>0 DEF ShapeOK
<1>1. ShapeOK'
  <2>1. held'[r] \in Sta \cup {None}
    BY <1>0 DEF ShapeOK, Linked
  <2>2. held' \in [Ctx -> Sta \cup {None}]
    BY <1>0, <2>1 DEF ShapeOK
  <2>3. from_bss' \in SUBSET Readers
    BY <1>0 DEF ShapeOK
  <2>4. QED
    BY <2>2, <2>3 DEF ShapeOK
<1>2. HeldPinned'
  <2> SUFFICES ASSUME NEW c \in Ctx, held'[c] # None, c \in from_bss' => ~Loose
               PROVE  Pinned(c, held'[c])
    BY <1>w DEF ShapeOK, HeldPinned, Pinned
  <2>1. CASE c # r
    BY <1>0, <2>1 DEF ShapeOK, HeldPinned
  <2>2. CASE c = r /\ held'[r] \in Linked
    BY <2>2 DEF Pinned, Linked
  <2>3. CASE c = r /\ held'[r] = bss_sta /\ from_bss' = from_bss \cup {r}
    BY <2>3 DEF BssPinned
  <2>4. QED
    BY <1>0, <2>1, <2>2, <2>3
<1>3. BssPinned'
  BY <1>w DEF BssPinned, Pinned, Idle
<1>4. WritersApart'
  BY <1>w DEF ShapeOK, WritersApart, Idle
<1>5. Replaces'
  BY <1>w DEF Replaces, Linked
<1>6. CallsCounted'
  BY DEF CallsCounted
<1>7. UniqueMacId'
  BY DEF UniqueMacId, Linked
<1>8. NumCounts'
  <2>1. Linked' = Linked /\ Twice' = Twice
    BY DEF Linked, Twice, ShapeOK
  <2>2. QED
    BY <2>1 DEF NumCounts
<1>9. QED
  BY <1>1, <1>2, <1>3, <1>4, <1>5, <1>6, <1>7, <1>8

\* A reader leaves: no grace period waits for it any more.
LEMMA ReaderLeaveStep ==
  ASSUME IInv, NEW r \in Readers,
         ReaderLeaves(r)
  PROVE  IInv'
<1> USE StaTableAssumption DEF IInv, history, Loose, Ids, Writers, Ctx, ReaderLeaves, LeaveRcu
<1>1. ShapeOK'
  BY DEF ShapeOK
<1>2. HeldPinned'
  BY DEF ShapeOK, HeldPinned, Pinned
<1>3. BssPinned'
  BY DEF ShapeOK, BssPinned, Pinned, Idle
<1>4. WritersApart'
  BY DEF ShapeOK, WritersApart, Idle
<1>5. Replaces'
  BY DEF Replaces, Linked
<1>6. CallsCounted'
  BY DEF CallsCounted
<1>7. UniqueMacId'
  BY DEF UniqueMacId, Linked
<1>8. NumCounts'
  <2>1. Linked' = Linked /\ Twice' = Twice
    BY DEF Linked, Twice, ShapeOK
  <2>2. QED
    BY <2>1 DEF NumCounts
<1>9. QED
  BY <1>1, <1>2, <1>3, <1>4, <1>5, <1>6, <1>7, <1>8

\* A station whose grace period is over has no reader.
LEMMA FreedStep ==
  ASSUME IInv, NEW s \in Sta,
         r92su_free_sta_rcu(s)
  PROVE  IInv'
<1> USE StaTableAssumption DEF IInv, history, Loose, Ids, Writers, Ctx, r92su_free_sta_rcu
<1>1. ShapeOK'
  BY DEF ShapeOK
<1>p. \A c \in Ctx, t \in Sta : Pinned(c, t) => Pinned(c, t)'
  BY DEF ShapeOK, Pinned
<1>2. HeldPinned'
  <2>1. held' = held /\ Loose' = Loose /\ from_bss' = from_bss
    BY DEF Loose
  <2>2. \A c \in Ctx : held[c] # None => held[c] \in Sta
    BY DEF ShapeOK
  <2>3. QED
    BY <1>p, <2>1, <2>2 DEF HeldPinned
<1>3. BssPinned'
  BY DEF BssPinned, Pinned, Idle
<1>4. WritersApart'
  BY DEF ShapeOK, WritersApart, Idle
<1>5. Replaces'
  BY DEF Replaces, Linked
<1>6. CallsCounted'
  BY DEF CallsCounted
<1>7. UniqueMacId'
  BY DEF UniqueMacId, Linked
<1>8. NumCounts'
  <2>1. Linked' = Linked /\ Twice' = Twice
    BY DEF Linked, Twice, ShapeOK
  <2>2. QED
    BY <2>1 DEF NumCounts
<1>9. QED
  BY <1>1, <1>2, <1>3, <1>4, <1>5, <1>6, <1>7, <1>8

\* Stuttering.
LEMMA StutterStep ==
  ASSUME IInv, UNCHANGED vars
  PROVE  IInv'
<1>1. UNCHANGED <<Linked, Twice>>
  BY DEF vars, Linked, Twice
<1>2. ShapeOK' /\ CallsCounted' /\ NumCounts' /\ UniqueMacId'
  BY <1>1 DEF IInv, vars, ShapeOK, CallsCounted, NumCounts, UniqueMacId
<1>3. HeldPinned' /\ BssPinned'
  BY DEF IInv, vars, HeldPinned, BssPinned, Pinned, Idle, Loose
<1>4. WritersApart' /\ Replaces'
  BY <1>1 DEF IInv, vars, WritersApart, Replaces, Idle
<1>5. QED
  BY <1>2, <1>3, <1>4 DEF IInv

\* The inductive invariant holds in every behaviour.
LEMMA Inductive == Spec => []IInv
<1>1. ASSUME IInv, [Next]_vars PROVE IInv'
  <2>1. ASSUME UnlinkedOnce, NEW c \in Writers,
               StaDelFind(c) \/ StaDelUnlink(c) \/ StaAllocLink(c)
        PROVE  IInv'
    BY <1>1, <2>1, FindStep, UnlinkStep, LinkStep
  <2>2. ASSUME NEW id \in FwIds, c2h_add_sta_event(id)
        PROVE  IInv'
    BY <1>1, <2>2, AllocStep DEF c2h_add_sta_event, Writers, Ids
  <2>3. CASE r92su_bss_connect_work
    BY <1>1, <2>3, AllocStep DEF r92su_bss_connect_work, Writers, Ids
  <2>4. CASE r92su_bss_connect_fails
    BY <1>1, <2>4, JoinFailsStep
  <2>5. CASE r92su_disconnect \/ r92su_stop
    BY <1>1, <2>5, LeaveStep DEF r92su_disconnect, r92su_stop, Ids
  <2>6. ASSUME NEW r \in Readers,
               ReaderEnters(r) \/ ReaderLooks(r) \/ ReaderLeaves(r)
        PROVE  IInv'
    BY <1>1, <2>6, EnterStep, LookStep, ReaderLeaveStep
  <2>7. ASSUME NEW s \in Sta, c2h_del_sta_event(s) \/ r92su_free_sta_rcu(s)
        PROVE  IInv'
    BY <1>1, <2>7, DelEventStep, FreedStep
  <2>8. CASE UNCHANGED vars
    BY <1>1, <2>8, StutterStep
  <2>9. QED
    BY <1>1, <2>1, <2>2, <2>3, <2>4, <2>5, <2>6, <2>7, <2>8 DEF Next
<1>2. QED
  BY InitIInv, <1>1, PTL DEF Spec

\* Type correctness; in particular r92su->sta_num does not fall below zero
\* as long as no station is unlinked twice.
THEOREM TypeCorrect == Spec => []TypeOK
<1>1. IInv => TypeOK
  <2> SUFFICES ASSUME IInv PROVE TypeOK
    OBVIOUS
  <2>1. (\A s \in Sta : calls[s] <= 1) => Twice = {}
    BY DEF Twice
  <2>2. (\A s \in Sta : calls[s] <= 1) => sta_num \in 0..Cardinality(Sta)
    BY <2>1, FiniteTable, FS_EmptySet DEF IInv, NumCounts
  <2>3. sta_num \in (-Cardinality(Sta))..Cardinality(Sta)
    BY FiniteTable DEF IInv, NumCounts
  <2>4. QED
    BY <2>2, <2>3 DEF IInv, ShapeOK, TypeOK
<1>2. QED
  BY Inductive, <1>1, PTL

\* However the firmware's station events interleave with connects, failed
\* joins and disconnects, the table has two stations with one mac id only
\* after two contexts allocated that id at the same time, although
\* r92su_sta_alloc looks the old one up before it takes sta_lock.
THEOREM MacIdsUnique == Spec => []UniqueMacId
  BY Inductive, PTL DEF IInv

\* Neither the data path nor a deletion ever holds a freed station that it
\* found in the table, nor one it took from the bss before another join
\* ended during the connection or the firmware named BSS_MACID.
THEOREM RcuProtectsStations == Spec => []NoUseAfterFree
<1>1. IInv => NoUseAfterFree
  BY DEF IInv, HeldPinned, Pinned, Loose, NoUseAfterFree
<1>2. QED
  BY Inductive, <1>1, PTL

-----------------------------------------------------------------------------
(***************************************************************************)
(* RxPath, for every cipher, sequence space, number of fragments, MSDUs    *)
(* and keys                                                                *)
(***************************************************************************)
CONSTANTS Ciphers, Mod, FirstIv, MaxKey

P == INSTANCE RxPath

\* The order in which the peer sends its fragments.
Before(p, q) == p[1] < q[1] \/ (p[1] = q[1] /\ p[2] < q[2])

\* The fragment it sends next, and the frame it sent last.
NextPart == <<peer.msdu, peer.frag>>
Newest == sent[Len(sent)]

\* The sequence number of an MSDU.
SeqOf(m) == (peer.start + m) % Mod

PeerType ==
  [start : 0..(Mod - 1), msdu : 1..(MaxMsdu + 1), frag : 0..(MaxFrag - 1),
   nfrag : 1..MaxFrag, key : 1..MaxKey, iv : Nat]

\* TypeOK without the bound on size.
PathTypes ==
  /\ cipher \in Ciphers /\ medium \in {"good", "bad"}
  /\ peer \in PeerType
  /\ sent \in Seq(P!Frame)
  /\ air \in P!Frame \cup {NoFrame}
  /\ rx_seq \in (0..(Mod - 1)) \X (0..(MaxFrag - 1))
  /\ key \in [id : 1..MaxKey, rx_seq : Nat]
  /\ queue \in Seq(P!Frame)
  /\ size \in Nat
  /\ out \in Seq(P!Parts)
  /\ delivered \in [P!Parts -> 0..2]
  /\ stray \in BOOLEAN

\* The peer's frames are numbered upwards: their parts, their keys, and
\* under one key their packet numbers.
SentInOrder ==
  /\ peer.key = key.id /\ peer.frag < peer.nfrag
  /\ \A i \in 1..Len(sent) :
       /\ Before(sent[i].part, NextPart)
       /\ sent[i].seq = SeqOf(sent[i].part[1])
       /\ sent[i].key <= peer.key
       /\ sent[i].key = peer.key => sent[i].iv < peer.iv
  /\ \A i, k \in 1..Len(sent) : i < k => Before(sent[i].part, sent[k].part)

\* What arrives was sent, and is the newest frame unless the link has a
\* replay check.
ArrivesSent ==
  air # NoFrame =>
    \E i \in 1..Len(sent) :
      air = sent[i] /\ (i = Len(sent) \/ (medium = "bad" /\ P!replays_checked))

\* The part was accepted: it waits in the queue, or was delivered.
Accepted(p) == delivered[p] > 0 \/ \E i \in 1..Len(queue) : queue[i].part = p

\* Only what was sent is accepted, and nothing is that may be accepted again:
\* a replay check has passed its packet number, and without one only the
\* newest frame comes again, whose sequence number rx_seq remembers.
AcceptedOnce ==
  /\ \A p \in P!Parts : Accepted(p) => Before(p, NextPart)
  /\ P!replays_checked =>
       \A i \in 1..Len(sent) :
         Accepted(sent[i].part) =>
           sent[i].key < key.id \/ sent[i].iv <= key.rx_seq
  /\ ~P!replays_checked /\ sent # << >> /\ Accepted(Newest.part) =>
       rx_seq = P!seq_ctrl(Newest)
  /\ \A i \in 1..Len(queue) : delivered[queue[i].part] = 0

\* Nothing was delivered twice.
Once == \A p \in P!Parts : delivered[p] <= 1

\* The inductive invariant of AtMostOnce.
OnceInv ==
  /\ P!ConstantsOK /\ NoFrame \notin P!Frame
  /\ PathTypes /\ SentInOrder /\ ArrivesSent
  /\ stray => key.id # 1
  /\ ~stray => AcceptedOnce /\ Once

\* The newest frame has been through r92su_rx_data.
Processed == sent # << >> => rx_seq = P!seq_ctrl(Newest)

\* The queue holds the first n fragments of MSDU m.
QueueHolds(m, n) ==
  /\ Len(queue) = n
  /\ \A k \in 1..n : queue[k].part = <<m, k - 1>> /\ queue[k].seq = SeqOf(m)

\* All of the MSDU of which f is the last fragment was delivered.
Settled(f) ==
  /\ f.kind = "data" /\ f.more = "last" /\ (cipher = "ccmp" => f.part[2] = 0)
  /\ ~P!Spoiled(f.part[1])
  => \A k \in 0..f.part[2] : delivered[<<f.part[1], k>>] > 0

\* Where the peer is, by the newest frame.
PeerFollows ==
  /\ sent = << >> => NextPart = <<1, 0>> /\ rx_seq = <<0, 0>>
  /\ sent # << >> =>
       IF Newest.more = "more"
       THEN Newest.part = <<peer.msdu, peer.frag - 1>> /\ Newest.kind = "data"
       ELSE peer.frag = 0 /\ Newest.part[1] = peer.msdu - 1

\* The replay check rejects nothing new: key.rx_seq is below the packet
\* number, or still the number a new key starts with (r92su_key_alloc).
FirstSeq == IF cipher = "tkip" THEN 1 ELSE 0
PassesFor(iv) == key.rx_seq < iv \/ key.rx_seq = FirstSeq

\* On a good link with its first key nothing is missed, but what is
\* swallowed at the start.
NothingMissed ==
  /\ P!replays_checked => PassesFor(peer.iv) /\ (~Processed => PassesFor(Newest.iv))
  /\ ~Processed => air # NoFrame
  /\ \A i \in 1..Len(sent) : i < Len(sent) \/ Processed => Settled(sent[i])
  /\ cipher # "ccmp" =>
       /\ Processed /\ peer.frag > 0 /\ ~P!Spoiled(peer.msdu) =>
            QueueHolds(peer.msdu, peer.frag)
       /\ ~Processed /\ Newest.part[2] > 0 /\ ~P!Spoiled(Newest.part[1]) =>
            QueueHolds(Newest.part[1], Newest.part[2])

\* The inductive invariant of NothingDropped.
DroppedInv ==
  /\ OnceInv /\ PeerFollows
  /\ medium = "good" /\ key.id = 1 => NothingMissed

-----------------------------------------------------------------------------

\* The order of the fragments is transitive.
LEMMA BeforeTrans ==
  ASSUME NEW p \in P!Parts, NEW q \in Int \X Int, NEW r \in Int \X Int,
         P!ConstantsOK, Before(p, q), Before(q, r)
  PROVE  Before(p, r)
BY DEF Before, P!Parts, P!ConstantsOK

\* The types of a frame's fields.
LEMMA FrameFields ==
  ASSUME P!ConstantsOK, NEW f \in P!Frame
  PROVE  /\ f.part \in P!Parts /\ f.part[1] \in Nat /\ f.part[2] \in Nat
         /\ f.part = <<f.part[1], f.part[2]>>
         /\ f.iv \in Nat /\ f.key \in Nat /\ f.key >= 1
         /\ f.seq \in 0..(Mod - 1)
         /\ P!seq_ctrl(f) \in (0..(Mod - 1)) \X (0..(MaxFrag - 1))
         /\ f.kind \in {"data", "mgmt"} /\ f.more \in {"more", "last"}
         /\ [f EXCEPT !.iv = 0] \in P!Frame
         /\ [f EXCEPT !.iv = 0].part = f.part
         /\ [f EXCEPT !.iv = 0].seq = f.seq
<1>1. f.part \in P!Parts /\ f.part = <<f.part[1], f.part[2]>>
  BY DEF P!Frame, P!Parts
<1>2. f.part[1] \in 1..MaxMsdu /\ f.part[2] \in 0..(MaxFrag - 1)
  BY DEF P!Frame, P!Parts
<1>3. f.part[1] \in Nat /\ f.part[2] \in Nat
  BY <1>2 DEF P!ConstantsOK
<1>4. f.key \in Nat /\ f.key >= 1
  BY DEF P!Frame, P!ConstantsOK
<1>5. [f EXCEPT !.iv = 0] \in P!Frame
  BY DEF P!Frame
<1>6. [f EXCEPT !.iv = 0].part = f.part /\ [f EXCEPT !.iv = 0].seq = f.seq
  BY DEF P!Frame
<1>7. P!seq_ctrl(f) \in (0..(Mod - 1)) \X (0..(MaxFrag - 1))
  BY <1>2 DEF P!seq_ctrl, P!Frame
<1> QED BY <1>1, <1>3, <1>4, <1>5, <1>6, <1>7 DEF P!Frame

\* What a frame that passed the checks does to the queue and to what was
\* delivered: only its part and the queued ones are concerned, and what is
\* delivered leaves the queue.
LEMMA DefragEffect ==
  ASSUME P!ConstantsOK, PathTypes, NEW f \in P!Frame, P!r92su_rx_defrag(f)
  PROVE  /\ queue' \in Seq(P!Frame) /\ size' \in Nat /\ out' \in Seq(P!Parts)
         /\ delivered' \in [P!Parts -> 0..2]
         /\ \A i \in 1..Len(queue') :
              \/ queue'[i].part = f.part
              \/ \E k \in 1..Len(queue) : queue'[i].part = queue[k].part
         /\ \A p \in P!Parts :
              \/ delivered'[p] = delivered[p]
              \/ /\ queue' = << >> /\ delivered'[p] = delivered[p] + 1
                 /\ \/ p = f.part
                    \/ \E k \in 1..Len(queue) : queue[k].part = p
         /\ queue' = << >> \/ delivered' = delivered
<1> DEFINE g == [f EXCEPT !.iv = 0]
<1>f. f.part \in P!Parts /\ g \in P!Frame /\ g.part = f.part
  BY FrameFields
<1>t. queue \in Seq(P!Frame) /\ size \in Nat /\ out \in Seq(P!Parts)
      /\ delivered \in [P!Parts -> 0..2]
  BY DEF PathTypes
<1> HIDE DEF g
<1>q. \A q \in Seq(P!Frame) :
        /\ Append(q, g) \in Seq(P!Frame)
        /\ Len(Append(q, g)) = Len(q) + 1
        /\ \A i \in 1..Len(Append(q, g)) :
             \/ Append(q, g)[i].part = f.part
             \/ i \in 1..Len(q) /\ Append(q, g)[i].part = q[i].part
  BY <1>f
<1>e. << >> \in Seq(P!Frame) /\ Len(<< >>) = 0
  OBVIOUS
\* What Deliver does.
<1>d. ASSUME NEW s \in Seq(P!Frame), P!Deliver(s), queue' = << >>,
             \A i \in DOMAIN s : \/ s[i].part = f.part
                                 \/ \E k \in 1..Len(queue) : s[i].part = queue[k].part
      PROVE  /\ out' \in Seq(P!Parts) /\ delivered' \in [P!Parts -> 0..2]
             /\ \A p \in P!Parts :
                  \/ delivered'[p] = delivered[p]
                  \/ /\ queue' = << >> /\ delivered'[p] = delivered[p] + 1
                     /\ \/ p = f.part
                        \/ \E k \in 1..Len(queue) : queue[k].part = p
  <2> DEFINE parts == [i \in DOMAIN s |-> s[i].part]
  <2>1. DOMAIN s = 1..Len(s) /\ Len(s) \in Nat /\ \A i \in 1..Len(s) : s[i] \in P!Frame
    OBVIOUS
  <2>2. \A i \in 1..Len(s) : s[i].part \in P!Parts
    BY <2>1, FrameFields
  <2>3. parts \in Seq(P!Parts)
    BY <2>1, <2>2
  <2>4. out' = parts
        /\ delivered' = [p \in P!Parts |->
             IF p \in P!ToSet(parts) /\ delivered[p] < 2
             THEN delivered[p] + 1 ELSE delivered[p]]
    BY <1>d DEF P!Deliver
  <2>5. \A p \in P!ToSet(parts) : p = f.part \/ \E k \in 1..Len(queue) : queue[k].part = p
    BY <1>d DEF P!ToSet
  <2> HIDE DEF parts
  <2>6. \A p \in P!Parts : delivered[p] \in 0..2
    BY <1>t
  <2>7. delivered' \in [P!Parts -> 0..2]
    BY <2>4, <2>6
  <2>8. \A p \in P!Parts : delivered'[p] = IF p \in P!ToSet(parts) /\ delivered[p] < 2
             THEN delivered[p] + 1 ELSE delivered[p]
    BY <2>4
  <2> QED BY <2>3, <2>4, <2>5, <2>7, <2>8, <1>d
<1>1. CASE queue' = Append(<< >>, g) /\ size' = 1 /\ UNCHANGED <<out, delivered>>
  <2>1. queue' \in Seq(P!Frame) /\ Len(queue') = 1 /\ queue'[1].part = f.part
    BY <1>1, <1>f
  <2>2. \A i \in 1..Len(queue') : queue'[i].part = f.part
    BY <2>1
  <2> QED BY <1>1, <2>1, <2>2, <1>t
<1>2. CASE queue' = Append(queue, g) /\ size' = size + 1 /\ UNCHANGED <<out, delivered>>
  BY <1>2, <1>q, <1>t
<1>3. CASE queue' = << >> /\ size' = 0 /\ P!Deliver(<<f>>)
  <2>1. <<f>> \in Seq(P!Frame) /\ DOMAIN <<f>> = {1} /\ <<f>>[1] = f
    OBVIOUS
  <2>2. \A i \in DOMAIN <<f>> : \/ <<f>>[i].part = f.part
                                \/ \E k \in 1..Len(queue) : <<f>>[i].part = queue[k].part
    BY <2>1
  <2>3. /\ out' \in Seq(P!Parts) /\ delivered' \in [P!Parts -> 0..2]
        /\ \A p \in P!Parts :
                  \/ delivered'[p] = delivered[p]
                  \/ /\ queue' = << >> /\ delivered'[p] = delivered[p] + 1
                     /\ \/ p = f.part
                        \/ \E k \in 1..Len(queue) : queue[k].part = p
    BY <1>3, <2>1, <2>2, <1>d
  <2>4. queue' \in Seq(P!Frame) /\ Len(queue') = 0 /\ size' \in Nat
    BY <1>3
  <2> QED BY <1>3, <2>3, <2>4
<1>4. CASE queue' = << >> /\ size' = size + 1 /\ P!Deliver(Append(queue, f))
  <2>1. Append(queue, f) \in Seq(P!Frame)
    BY <1>t
  <2>2. \A i \in DOMAIN Append(queue, f) :
          \/ Append(queue, f)[i].part = f.part
          \/ \E k \in 1..Len(queue) : Append(queue, f)[i].part = queue[k].part
    BY <1>t
  <2>3. /\ out' \in Seq(P!Parts) /\ delivered' \in [P!Parts -> 0..2]
        /\ \A p \in P!Parts :
                  \/ delivered'[p] = delivered[p]
                  \/ /\ queue' = << >> /\ delivered'[p] = delivered[p] + 1
                     /\ \/ p = f.part
                        \/ \E k \in 1..Len(queue) : queue[k].part = p
    BY <1>4, <2>1, <2>2, <1>d
  <2>4. queue' \in Seq(P!Frame) /\ Len(queue') = 0 /\ size' \in Nat
    BY <1>4, <1>t
  <2> QED BY <1>4, <2>3, <2>4
<1>5. CASE queue' = << >> /\ size' = 0 /\ UNCHANGED <<out, delivered>>
  BY <1>5, <1>e, <1>t
<1> QED
  BY <1>1, <1>2, <1>3, <1>4, <1>5
    DEF P!r92su_rx_defrag, P!r92su_defrag_add, P!r92su_defrag_drop, g

\* A part is a pair of numbers.
LEMMA PartFields ==
  ASSUME P!ConstantsOK, NEW p \in P!Parts
  PROVE  p[1] \in Nat /\ p[2] \in Nat /\ p = <<p[1], p[2]>>
BY DEF P!Parts, P!ConstantsOK

\* Parts of different frames differ.
LEMMA BeforeIrreflexive ==
  ASSUME P!ConstantsOK, NEW p \in P!Parts
  PROVE  ~Before(p, p)
BY PartFields DEF Before

\* What PathTypes says of the peer, of the key and of the frames.
LEMMA PeerFields ==
  ASSUME P!ConstantsOK, PathTypes
  PROVE  /\ peer.start \in Nat /\ peer \in PeerType
         /\ peer.msdu \in Nat /\ peer.frag \in Nat /\ peer.nfrag \in Nat
         /\ peer.key \in Nat /\ peer.iv \in Nat /\ peer.msdu >= 1
         /\ key.id \in Nat /\ key.rx_seq \in Nat
         /\ Len(sent) \in Nat /\ \A i \in 1..Len(sent) : sent[i] \in P!Frame
         /\ Len(queue) \in Nat /\ \A i \in 1..Len(queue) : queue[i] \in P!Frame
         /\ \A p \in P!Parts : delivered[p] \in 0..2
<1>1. \A i \in 1..Len(sent) : sent[i] \in P!Frame
  BY DEF PathTypes
<1>2. \A i \in 1..Len(queue) : queue[i] \in P!Frame
  BY DEF PathTypes
<1>3. /\ peer.msdu \in 1..(MaxMsdu + 1) /\ peer.frag \in 0..(MaxFrag - 1)
      /\ peer.nfrag \in 1..MaxFrag /\ peer.key \in 1..MaxKey /\ peer.iv \in Nat
      /\ peer.start \in 0..(Mod - 1) /\ peer \in PeerType
  BY DEF PathTypes, PeerType
<1>4. /\ peer.start \in Nat /\ peer.msdu \in Nat /\ peer.frag \in Nat /\ peer.nfrag \in Nat
      /\ peer.key \in Nat /\ peer.msdu >= 1
  BY <1>3 DEF P!ConstantsOK
<1>5. key.id \in Nat /\ key.rx_seq \in Nat
  <2>1. key.id \in 1..MaxKey /\ key.rx_seq \in Nat
    BY DEF PathTypes
  <2> QED BY <2>1 DEF P!ConstantsOK
<1>6. /\ Len(sent) \in Nat /\ Len(queue) \in Nat
      /\ \A p \in P!Parts : delivered[p] \in 0..2
  BY DEF PathTypes
<1> QED BY <1>1, <1>2, <1>3, <1>4, <1>5, <1>6

\* The initial states.
LEMMA OnceInit ==
  ASSUME P!ConstantsOK, NoFrame \notin P!Frame, P!Init
  PROVE  OnceInv
<1>1. peer \in [start : 0..(Mod - 1), msdu : {1}, frag : {0}, nfrag : 1..MaxFrag,
               key : {1}, iv : {FirstIv}]
  BY DEF P!Init
<1>2. peer \in PeerType /\ peer.key = 1 /\ peer.frag < peer.nfrag
  BY <1>1 DEF P!ConstantsOK, PeerType
<1>s. stray \in BOOLEAN /\ ~stray
  BY DEF P!Init
<1>3. key \in [id : 1..MaxKey, rx_seq : Nat] /\ key.id = 1
  BY DEF P!Init, P!r92su_key_alloc, P!ConstantsOK
<1>4. delivered \in [P!Parts -> 0..2] /\ \A p \in P!Parts : delivered[p] = 0
  BY DEF P!Init
<1>5. Len(sent) = 0 /\ Len(queue) = 0 /\ sent = << >>
  BY DEF P!Init
<1>6. rx_seq \in (0..(Mod - 1)) \X (0..(MaxFrag - 1))
  BY DEF P!Init, P!ConstantsOK
<1>7. PathTypes
  BY <1>2, <1>3, <1>4, <1>6, <1>s DEF PathTypes, P!Init
<1>8. SentInOrder /\ ArrivesSent
  BY <1>2, <1>3, <1>5 DEF SentInOrder, ArrivesSent, P!Init
<1>9. AcceptedOnce /\ Once
  BY <1>4, <1>5 DEF AcceptedOnce, Accepted, Once
<1> QED BY <1>7, <1>8, <1>9, <1>s DEF OnceInv

\* The frame the peer sends.
NewFrame(kind) ==
  [kind |-> kind,
   part |-> <<peer.msdu, peer.frag>>,
   seq |-> (peer.start + peer.msdu) % Mod,
   more |-> IF peer.frag + 1 = peer.nfrag THEN "last" ELSE "more",
   key |-> peer.key,
   iv |-> peer.iv]

\* What sending it does to what was sent and to the peer.
LEMMA SendEffect ==
  ASSUME P!ConstantsOK, PathTypes, SentInOrder, NoFrame \notin P!Frame,
         NEW kind \in {"data", "mgmt"}, NEW n \in 1..MaxFrag, P!Send(kind, n)
  PROVE  LET f == NewFrame(kind) IN
         /\ f \in P!Frame /\ f.part = NextPart /\ f.part \in P!Parts
         /\ f.seq = SeqOf(f.part[1]) /\ f.key = peer.key /\ f.iv = peer.iv
         /\ f.kind = kind
         /\ f.more = IF peer.frag + 1 = peer.nfrag THEN "last" ELSE "more"
         /\ air' = f /\ air' # NoFrame /\ air = NoFrame
         /\ sent' \in Seq(P!Frame) /\ Len(sent') = Len(sent) + 1
         /\ sent'[Len(sent) + 1] = f
         /\ \A i \in 1..Len(sent) : sent'[i] = sent[i]
         /\ peer' \in PeerType /\ peer'.start = peer.start
         /\ peer'.key = peer.key /\ peer'.iv = peer.iv + 1
         /\ peer'.frag < peer'.nfrag
         /\ peer.frag + 1 = peer.nfrag =>
              peer'.msdu = peer.msdu + 1 /\ peer'.frag = 0
         /\ peer.frag + 1 # peer.nfrag =>
              peer'.msdu = peer.msdu /\ peer'.frag = peer.frag + 1
         /\ kind = "mgmt" => peer.nfrag = 1
         /\ UNCHANGED <<cipher, medium, P!rxvars>>
<1> DEFINE f == NewFrame(kind)
<1> USE DEF PeerType
<1>1. peer \in PeerType
      /\ peer.msdu <= MaxMsdu /\ peer.frag < peer.nfrag
  BY DEF PathTypes, P!Send, SentInOrder
<1>2. peer.msdu \in 1..MaxMsdu /\ peer.frag \in 0..(MaxFrag - 1)
      /\ peer.start \in 0..(Mod - 1)
  BY <1>1 DEF P!ConstantsOK
<1>3. <<peer.msdu, peer.frag>> \in P!Parts
  BY <1>2 DEF P!Parts
<1>4. (peer.start + peer.msdu) % Mod \in 0..(Mod - 1)
  BY <1>2 DEF P!ConstantsOK
<1>5. f \in P!Frame
  BY <1>1, <1>3, <1>4 DEF P!Frame, NewFrame
<1>6. /\ f.part = NextPart /\ f.part \in P!Parts
      /\ f.seq = SeqOf(f.part[1]) /\ f.key = peer.key /\ f.iv = peer.iv
      /\ f.kind = kind
      /\ f.more = IF peer.frag + 1 = peer.nfrag THEN "last" ELSE "more"
  BY <1>3 DEF NewFrame, NextPart, SeqOf
<1>7. /\ air' = f /\ air = NoFrame /\ sent' = Append(sent, f)
      /\ peer' = [peer EXCEPT
                    !.msdu = IF peer.frag + 1 = peer.nfrag THEN @ + 1 ELSE @,
                    !.frag = IF peer.frag + 1 = peer.nfrag THEN 0 ELSE @ + 1,
                    !.nfrag = IF peer.frag + 1 = peer.nfrag THEN n ELSE @,
                    !.iv = @ + 1]
      /\ kind = "mgmt" => peer.nfrag = 1
      /\ UNCHANGED <<cipher, medium, P!rxvars>>
  BY DEF P!Send, NewFrame
<1> HIDE DEF f
<1>8. /\ sent' \in Seq(P!Frame) /\ Len(sent') = Len(sent) + 1
      /\ sent'[Len(sent) + 1] = f
      /\ \A i \in 1..Len(sent) : sent'[i] = sent[i]
  <2>1. sent \in Seq(P!Frame)
    BY DEF PathTypes
  <2> QED BY <2>1, <1>5, <1>7
<1>9. CASE peer.frag + 1 = peer.nfrag
  <2>1. peer' = [start |-> peer.start, msdu |-> peer.msdu + 1, frag |-> 0, nfrag |-> n,
                 key |-> peer.key, iv |-> peer.iv + 1]
    BY <1>1, <1>7, <1>9
  <2>2. peer.msdu + 1 \in 1..(MaxMsdu + 1) /\ 0 \in 0..(MaxFrag - 1)
        /\ peer.key \in 1..MaxKey /\ peer.iv + 1 \in Nat /\ 0 < n /\ n \in 1..MaxFrag
        /\ peer.start \in 0..(Mod - 1)
    BY <1>1, <1>2 DEF P!ConstantsOK
  <2>3. /\ peer' \in PeerType /\ peer'.start = peer.start
        /\ peer'.key = peer.key /\ peer'.iv = peer.iv + 1
        /\ peer'.frag < peer'.nfrag
        /\ peer'.msdu = peer.msdu + 1 /\ peer'.frag = 0
    <3>1. /\ peer'.start = peer.start /\ peer'.key = peer.key /\ peer'.iv = peer.iv + 1
          /\ peer'.msdu = peer.msdu + 1 /\ peer'.frag = 0 /\ peer'.nfrag = n
      BY <2>1
    <3>2. peer' \in PeerType
      BY <2>1, <2>2
    <3> QED BY <2>2, <3>1, <3>2
  <2> QED BY <2>3, <1>5, <1>6, <1>7, <1>8, <1>9 DEF f
<1>10. CASE peer.frag + 1 # peer.nfrag
  <2>1. peer' = [start |-> peer.start, msdu |-> peer.msdu, frag |-> peer.frag + 1,
                 nfrag |-> peer.nfrag, key |-> peer.key, iv |-> peer.iv + 1]
    BY <1>1, <1>7, <1>10
  <2>2. peer.frag + 1 \in 0..(MaxFrag - 1) /\ peer.frag + 1 < peer.nfrag
        /\ peer.key \in 1..MaxKey /\ peer.iv + 1 \in Nat
    BY <1>1, <1>2, <1>10 DEF P!ConstantsOK
  <2>3. /\ peer' \in PeerType /\ peer'.start = peer.start
        /\ peer'.key = peer.key /\ peer'.iv = peer.iv + 1
        /\ peer'.frag < peer'.nfrag
        /\ peer'.msdu = peer.msdu /\ peer'.frag = peer.frag + 1
    BY <2>1, <2>2, <1>1
  <2> QED BY <2>3, <1>5, <1>6, <1>7, <1>8, <1>10 DEF f
<1> QED BY <1>9, <1>10

\* The peer sends a frame: it is newer than all that was accepted.
LEMMA OnceSend ==
  ASSUME OnceInv,
         NEW kind \in {"data", "mgmt"}, NEW n \in 1..MaxFrag, P!Send(kind, n)
  PROVE  OnceInv'
<1> DEFINE f == NewFrame(kind)
<1>0. P!ConstantsOK /\ NoFrame \notin P!Frame /\ PathTypes /\ SentInOrder
  BY DEF OnceInv
<1>1. /\ f \in P!Frame /\ f.part = NextPart /\ f.part \in P!Parts
      /\ f.seq = SeqOf(f.part[1]) /\ f.key = peer.key /\ f.iv = peer.iv
      /\ air' = f
      /\ sent' \in Seq(P!Frame) /\ Len(sent') = Len(sent) + 1
      /\ sent'[Len(sent) + 1] = f
      /\ \A i \in 1..Len(sent) : sent'[i] = sent[i]
      /\ peer' \in PeerType /\ peer'.start = peer.start
      /\ peer'.key = peer.key /\ peer'.iv = peer.iv + 1
      /\ peer'.frag < peer'.nfrag
      /\ peer.frag + 1 = peer.nfrag =>
              peer'.msdu = peer.msdu + 1 /\ peer'.frag = 0
      /\ peer.frag + 1 # peer.nfrag =>
              peer'.msdu = peer.msdu /\ peer'.frag = peer.frag + 1
      /\ UNCHANGED <<cipher, medium, P!rxvars>>
  BY <1>0, SendEffect
<1> HIDE DEF f
<1>2. UNCHANGED <<cipher, medium, rx_seq, key, queue, size, out, delivered, stray>>
  BY <1>1 DEF P!rxvars
<1>s. \A m \in Nat : SeqOf(m)' = SeqOf(m)
  BY <1>1 DEF SeqOf
<1>3. PathTypes'
  BY <1>0, <1>1, <1>2 DEF PathTypes
<1>p. /\ peer.msdu \in Nat /\ peer.frag \in Nat /\ peer.key \in Nat /\ peer.iv \in Nat
      /\ Len(sent) \in Nat /\ \A i \in 1..Len(sent) : sent[i] \in P!Frame
  BY <1>0, PeerFields
<1>q. /\ peer'.msdu \in Nat /\ peer'.frag \in Nat
  BY <1>1, <1>p
<1>n. /\ Len(sent') = Len(sent) + 1 /\ \A i \in 1..Len(sent) : sent'[i] = sent[i]
      /\ peer'.key = peer.key /\ peer'.iv = peer.iv + 1
  BY <1>1
<1>4. Before(NextPart, NextPart') /\ NextPart \in Int \X Int /\ NextPart' \in Int \X Int
  <2>1. \/ peer'.msdu = peer.msdu + 1
        \/ peer'.msdu = peer.msdu /\ peer'.frag = peer.frag + 1
    BY <1>1
  <2> QED BY <2>1, <1>p, <1>q DEF Before, NextPart
<1>5. \A p \in P!Parts : Before(p, NextPart) => Before(p, NextPart')
  BY <1>0, <1>4, BeforeTrans
<1>6. \A i \in 1..Len(sent) : sent[i].part \in P!Parts /\ sent[i].iv \in Nat /\ sent[i].key \in Nat
  BY <1>0, <1>p, FrameFields
<1>7. SentInOrder'
  <2>1. peer'.key = key'.id /\ peer'.frag < peer'.nfrag
    BY <1>0, <1>1, <1>2 DEF SentInOrder
  <2>2. ASSUME NEW i \in 1..Len(sent')
        PROVE  /\ Before(sent'[i].part, NextPart')
               /\ sent'[i].seq = SeqOf(sent[i].part[1])'
               /\ sent'[i].key <= peer'.key
               /\ sent'[i].key = peer'.key => sent'[i].iv < peer'.iv
    <3>1. CASE i \in 1..Len(sent)
      <4>1. /\ Before(sent[i].part, NextPart)
            /\ sent[i].seq = SeqOf(sent[i].part[1])
            /\ sent[i].key <= peer.key
            /\ sent[i].key = peer.key => sent[i].iv < peer.iv
        BY <1>0, <3>1 DEF SentInOrder
      <4>2. sent'[i] = sent[i]
        BY <3>1, <1>1
      <4>3. Before(sent[i].part, NextPart')
        BY <4>1, <3>1, <1>5, <1>6
      <4>4. sent[i].key <= peer'.key /\ (sent[i].key = peer'.key => sent[i].iv < peer'.iv)
        <5>1. sent[i].iv \in Nat /\ sent[i].key \in Nat
          BY <3>1, <1>6
        <5> QED BY <5>1, <4>1, <1>n, <1>p
      <4>5. SeqOf(sent[i].part[1])' = SeqOf(sent[i].part[1])
        BY <4>2, <3>1, <1>1 DEF SeqOf
      <4> QED BY <4>1, <4>2, <4>3, <4>4, <4>5
    <3>2. CASE i = Len(sent) + 1
      <4>1. sent'[i] = f
        BY <3>2, <1>1
      <4>2. Before(f.part, NextPart') /\ f.seq = SeqOf(f.part[1])
        BY <1>1, <1>4
      <4>3. f.key <= peer'.key /\ f.iv < peer'.iv
        BY <1>1, <1>p
      <4>4. SeqOf(sent[i].part[1])' = SeqOf(f.part[1])
        BY <4>1, <1>1 DEF SeqOf
      <4> QED BY <4>1, <4>2, <4>3, <4>4
    <3> QED BY <3>1, <3>2, <1>1, <1>p
  <2>3. ASSUME NEW i \in 1..Len(sent'), NEW k \in 1..Len(sent'), i < k
        PROVE  Before(sent'[i].part, sent'[k].part)
    <3>1. i \in 1..Len(sent) /\ sent'[i] = sent[i]
      <4>1. i \in 1..Len(sent)
        BY <2>3, <1>n, <1>p
      <4> QED BY <4>1, <1>n
    <3>2. CASE k \in 1..Len(sent)
      <4>1. Before(sent[i].part, sent[k].part)
        BY <3>1, <3>2, <2>3, <1>0 DEF SentInOrder
      <4> QED BY <4>1, <3>1, <3>2, <1>1
    <3>3. CASE k = Len(sent) + 1
      <4>1. Before(sent[i].part, NextPart)
        BY <3>1, <1>0 DEF SentInOrder
      <4> QED BY <4>1, <3>1, <3>3, <1>1
    <3> QED BY <3>2, <3>3, <1>1, <1>p
  <2> QED BY <2>1, <2>2, <2>3 DEF SentInOrder
<1>8. ArrivesSent'
  <2>1. Len(sent') \in 1..Len(sent') /\ air' = sent'[Len(sent')]
    BY <1>1, <1>p
  <2> QED BY <2>1 DEF ArrivesSent
<1>9. ASSUME ~stray PROVE AcceptedOnce' /\ Once'
  <2>0. AcceptedOnce /\ Once
    BY <1>9 DEF OnceInv
  <2>1. \A p \in P!Parts : Accepted(p)' <=> Accepted(p)
    BY <1>2 DEF Accepted
  <2>2. ~Accepted(f.part)
    BY <2>0, <1>0, <1>1, BeforeIrreflexive DEF AcceptedOnce
  <2>3. \A p \in P!Parts : Accepted(p)' => Before(p, NextPart')
    BY <2>0, <2>1, <1>5 DEF AcceptedOnce
  <2>4. ASSUME P!replays_checked', NEW i \in 1..Len(sent'), Accepted(sent[i].part)'
        PROVE  sent'[i].key < key'.id \/ sent'[i].iv <= key'.rx_seq
    <3>1. CASE i \in 1..Len(sent)
      <4>1. sent'[i] = sent[i] /\ P!replays_checked /\ Accepted(sent[i].part)
        <5>1. sent'[i] = sent[i] /\ P!replays_checked
          BY <3>1, <1>1, <1>2, <2>4 DEF P!replays_checked
        <5> QED BY <5>1, <1>2, <2>4 DEF Accepted
      <4> QED BY <4>1, <3>1, <2>0, <1>2 DEF AcceptedOnce
    <3>2. CASE i = Len(sent) + 1
      <4>1. sent'[i] = f
        BY <3>2, <1>1
      <4>2. Accepted(f.part)
        BY <4>1, <2>4, <1>2 DEF Accepted
      <4> QED BY <4>2, <2>2
    <3> QED BY <3>1, <3>2, <1>1, <1>p
  <2>5. ~Accepted(Newest.part)'
    <3>1. Newest' = f
      BY <1>1 DEF Newest
    <3> QED BY <3>1, <2>2, <1>2 DEF Accepted
  <2>6. \A i \in 1..Len(queue') : delivered'[queue'[i].part] = 0
    BY <2>0, <1>2 DEF AcceptedOnce
  <2>7. P!replays_checked' =>
          \A i \in 1..Len(sent') : Accepted(sent[i].part)' =>
            sent'[i].key < key'.id \/ sent'[i].iv <= key'.rx_seq
    BY <2>4
  <2>8. Once'
    BY <2>0, <1>2 DEF Once
  <2> QED BY <2>3, <2>5, <2>6, <2>7, <2>8 DEF AcceptedOnce
<1>10. (stray => key.id # 1)' /\ stray' = stray
  BY <1>2 DEF OnceInv
<1> QED BY <1>0, <1>3, <1>7, <1>8, <1>9, <1>10
  DEF OnceInv, P!ConstantsOK, P!Frame

\* A frame that comes again, or is lost.
LEMMA OnceAir ==
  ASSUME OnceInv, UNCHANGED <<cipher, medium, peer, sent, P!rxvars>>,
         air' = NoFrame \/ \E i \in 1..Len(sent) : P!Again(i)
  PROVE  OnceInv'
<1>0. P!ConstantsOK /\ NoFrame \notin P!Frame /\ PathTypes /\ SentInOrder
  BY DEF OnceInv
<1>1. UNCHANGED <<cipher, medium, peer, sent, rx_seq, key, queue, size, out,
                delivered, stray>>
  BY DEF P!rxvars
<1>2. air' \in P!Frame \cup {NoFrame} /\ ArrivesSent'
  <2>1. CASE air' = NoFrame
    BY <2>1 DEF ArrivesSent
  <2>2. CASE \E i \in 1..Len(sent) : P!Again(i)
    <3>1. PICK i \in 1..Len(sent) : P!Again(i)
      BY <2>2
    <3>2. sent[i] \in P!Frame
      BY <1>0, PeerFields
    <3>3. air' = sent'[i] /\ (i = Len(sent') \/ (medium' = "bad" /\ P!replays_checked'))
      BY <3>1, <1>1 DEF P!Again, P!replays_checked
    <3> QED BY <3>2, <3>3, <1>1 DEF ArrivesSent
  <2> QED BY <2>1, <2>2
<1>3. PathTypes'
  BY <1>0, <1>1, <1>2 DEF PathTypes
<1>4. SentInOrder'
  BY <1>0, <1>1 DEF SentInOrder, NextPart, SeqOf
<1>5. (stray => key.id # 1)' /\ (~stray' => AcceptedOnce' /\ Once')
  BY <1>1
    DEF OnceInv, AcceptedOnce, Accepted, Once, NextPart, Newest, P!seq_ctrl,
      P!replays_checked
<1> QED BY <1>0, <1>2, <1>3, <1>4, <1>5 DEF OnceInv, P!ConstantsOK, P!Frame

\* A new key: everything that was accepted is older than it.
LEMMA OnceRekey ==
  ASSUME OnceInv, P!Rekey
  PROVE  OnceInv'
<1>0. P!ConstantsOK /\ NoFrame \notin P!Frame /\ PathTypes /\ SentInOrder
      /\ ArrivesSent
  BY DEF OnceInv
<1>1. UNCHANGED <<cipher, medium, sent, air, rx_seq, queue, size, out,
                delivered, stray>>
  BY DEF P!Rekey
<1>2. key' = [id |-> key.id + 1, rx_seq |-> IF cipher = "tkip" THEN 1 ELSE 0]
      /\ key.id < MaxKey /\ peer' = [peer EXCEPT !.key = key.id + 1, !.iv = FirstIv]
  BY DEF P!Rekey, P!r92su_key_alloc
<1>p. /\ peer.msdu \in Nat /\ peer.frag \in Nat /\ peer.key \in Nat /\ peer.iv \in Nat
      /\ key.id \in Nat
      /\ Len(sent) \in Nat /\ \A i \in 1..Len(sent) : sent[i] \in P!Frame
  BY <1>0, PeerFields
<1>3. key' \in [id : 1..MaxKey, rx_seq : Nat] /\ key'.id = key.id + 1
  <2>1. key.id < MaxKey /\ MaxKey \in Nat
    BY <1>2, <1>0 DEF P!ConstantsOK
  <2>2. key.id + 1 \in 1..MaxKey
    BY <2>1, <1>p
  <2> QED BY <1>2, <2>2
<1>4. peer' \in PeerType /\ peer'.start = peer.start
      /\ peer'.key = key'.id
      /\ peer'.msdu = peer.msdu /\ peer'.frag = peer.frag /\ peer'.nfrag = peer.nfrag
  <2>1. key.id + 1 \in 1..MaxKey /\ FirstIv \in Nat
    BY <1>3, <1>0 DEF P!ConstantsOK
  <2>2. peer \in PeerType
    BY <1>0 DEF PathTypes
  <2> QED BY <2>1, <2>2, <1>2, <1>3 DEF PeerType
<1>5. PathTypes'
  BY <1>0, <1>1, <1>3, <1>4 DEF PathTypes
<1>6. \A i \in 1..Len(sent) : sent[i].key \in Nat /\ sent[i].key < key'.id
  <2>1. \A i \in 1..Len(sent) : sent[i].key \in Nat
    BY <1>0, <1>p, FrameFields
  <2>2. \A i \in 1..Len(sent) : sent[i].key <= key.id
    BY <1>0 DEF SentInOrder
  <2> QED BY <2>1, <2>2, <1>3, <1>p
<1>7. NextPart' = NextPart
  BY <1>4 DEF NextPart
<1>8. SentInOrder'
  <2>1. \A i \in 1..Len(sent') :
          /\ sent'[i].key <= peer'.key
          /\ sent'[i].key # peer'.key
    BY <1>1, <1>4, <1>6, <1>3, <1>p
  <2> QED BY <1>0, <1>1, <1>4, <1>7, <2>1 DEF SentInOrder, SeqOf
<1>9. ArrivesSent'
  BY <1>0, <1>1 DEF ArrivesSent, P!replays_checked
<1>10. ASSUME ~stray PROVE AcceptedOnce' /\ Once'
  <2>0. AcceptedOnce /\ Once
    BY <1>10 DEF OnceInv
  <2>1. \A i \in 1..Len(sent') : sent'[i].key < key'.id
    BY <1>1, <1>6
  <2> QED BY <2>0, <1>1, <1>7, <2>1
    DEF AcceptedOnce, Once, Accepted, Newest, P!seq_ctrl, P!replays_checked
<1>11. stray' = stray /\ key'.id # 1
  <2>1. key.id \in 1..MaxKey
    BY <1>0 DEF PathTypes
  <2> QED BY <2>1, <1>0, <1>1, <1>3 DEF P!ConstantsOK
<1> QED BY <1>0, <1>5, <1>8, <1>9, <1>10, <1>11
  DEF OnceInv, P!ConstantsOK, P!Frame

\* The frame passes every check of r92su_rx_data, perhaps but the decryption.
Passes(f) ==
  P!r92su_rx_deduplicate(f) /\ f.kind = "data" /\ P!r92su_rx_iv_handle(f)

\* A frame that passes the checks of its own key was not accepted before.
LEMMA PassesOnce ==
  ASSUME OnceInv, ~stray, air # NoFrame, Passes(air),
         P!replays_checked => air.key = key.id
  PROVE  ~Accepted(air.part)
<1>0. P!ConstantsOK /\ PathTypes /\ SentInOrder /\ AcceptedOnce /\ ArrivesSent
  BY DEF OnceInv
<1>1. PICK i \in 1..Len(sent) :
        air = sent[i] /\ (i = Len(sent) \/ (medium = "bad" /\ P!replays_checked))
  BY <1>0 DEF ArrivesSent
<1>2. sent[i].key \in Nat /\ sent[i].iv \in Nat /\ key.id \in Nat /\ key.rx_seq \in Nat
      /\ Len(sent) \in Nat
  BY <1>0, PeerFields, FrameFields
<1>3. CASE P!replays_checked
  <2>1. sent[i].key = key.id /\ sent[i].iv > key.rx_seq
    BY <1>1, <1>3
      DEF Passes, P!r92su_rx_iv_handle, P!replays_checked
  <2>2. ~(sent[i].key < key.id) /\ ~(sent[i].iv <= key.rx_seq)
    BY <2>1, <1>2
  <2> QED BY <2>2, <1>0, <1>1, <1>3 DEF AcceptedOnce
<1>4. CASE ~P!replays_checked
  <2>1. air = Newest /\ sent # << >>
    BY <1>1, <1>2, <1>4 DEF Newest
  <2> QED BY <2>1, <1>0, <1>4 DEF AcceptedOnce, Passes, P!r92su_rx_deduplicate
<1> QED BY <1>3, <1>4

\* What r92su_rx_data leaves behind of a frame, for the invariant.
LEMMA OnceRxData ==
  ASSUME OnceInv, NEW n \in BOOLEAN, P!RxData(n)
  PROVE  OnceInv'
<1>0. P!ConstantsOK /\ NoFrame \notin P!Frame /\ PathTypes /\ SentInOrder
      /\ ArrivesSent
  BY DEF OnceInv
<1>1. air # NoFrame /\ air' = NoFrame /\ rx_seq' = P!seq_ctrl(air)
      /\ UNCHANGED <<cipher, medium, peer, sent>>
  BY DEF P!RxData
<1>2. PICK i \in 1..Len(sent) :
        air = sent[i] /\ (i = Len(sent) \/ (medium = "bad" /\ P!replays_checked))
  BY <1>0, <1>1 DEF ArrivesSent
<1>p. /\ peer.key \in Nat /\ peer.iv \in Nat
      /\ key.id \in Nat /\ key.rx_seq \in Nat
      /\ Len(sent) \in Nat /\ \A k \in 1..Len(sent) : sent[k] \in P!Frame
      /\ \A k \in 1..Len(queue) : queue[k] \in P!Frame
      /\ \A p \in P!Parts : delivered[p] \in 0..2
  BY <1>0, PeerFields
<1>f. /\ air \in P!Frame /\ air.part \in P!Parts /\ air.iv \in Nat
      /\ P!seq_ctrl(air) \in (0..(Mod - 1)) \X (0..(MaxFrag - 1))
  BY <1>0, <1>2, <1>p, FrameFields
<1>3. SentInOrder' <=> (peer.key = key'.id)
  BY <1>0, <1>1 DEF SentInOrder, NextPart, SeqOf
<1>4. ArrivesSent'
  BY <1>1 DEF ArrivesSent
<1>5. ~P!replays_checked /\ sent # << >> => rx_seq' = P!seq_ctrl(Newest)
  BY <1>1, <1>2 DEF Newest
<1>6. NextPart' = NextPart /\ (P!replays_checked' <=> P!replays_checked)
      /\ Newest' = Newest /\ P!seq_ctrl(Newest)' = P!seq_ctrl(Newest)
  BY <1>1 DEF NextPart, P!replays_checked, Newest, P!seq_ctrl
<1>7. CASE UNCHANGED <<key, queue, size, out, delivered, stray>>
  <2>1. PathTypes'
    BY <1>0, <1>1, <1>7, <1>f DEF PathTypes
  <2>2. SentInOrder'
    BY <1>0, <1>3, <1>7 DEF SentInOrder
  <2>3. (stray => key.id # 1)' /\ (~stray' => AcceptedOnce' /\ Once')
    BY <1>1, <1>5, <1>6, <1>7 DEF OnceInv, AcceptedOnce, Once, Accepted
  <2> QED BY <2>1, <2>2, <2>3, <1>0, <1>4 DEF OnceInv, P!ConstantsOK, P!Frame
<1>8. CASE /\ Passes(air)
           /\ key' = IF P!protects THEN [key EXCEPT !.rx_seq = air.iv] ELSE key
           /\ P!r92su_rx_defrag(air)
           /\ stray' = (stray \/ (P!replays_checked /\ air.key # key.id))
  <2>2. /\ queue' \in Seq(P!Frame) /\ size' \in Nat /\ out' \in Seq(P!Parts)
        /\ delivered' \in [P!Parts -> 0..2]
        /\ \A k \in 1..Len(queue') :
              \/ queue'[k].part = air.part
              \/ \E m \in 1..Len(queue) : queue'[k].part = queue[m].part
        /\ \A p \in P!Parts :
              \/ delivered'[p] = delivered[p]
              \/ /\ queue' = << >> /\ delivered'[p] = delivered[p] + 1
                 /\ \/ p = air.part
                    \/ \E k \in 1..Len(queue) : queue[k].part = p
        /\ queue' = << >> \/ delivered' = delivered
    BY <1>0, <1>8, <1>f, DefragEffect
  <2>3. /\ key' \in [id : 1..MaxKey, rx_seq : Nat] /\ key'.id = key.id
        /\ P!protects => key'.rx_seq = air.iv
    <3>1. key \in [id : 1..MaxKey, rx_seq : Nat]
      BY <1>0 DEF PathTypes
    <3> QED BY <3>1, <1>8, <1>f
  <2>s. stray' \in BOOLEAN
    BY <1>8, Zenon
  <2>4. PathTypes'
    BY <1>0, <1>1, <1>f, <2>2, <2>3, <2>s DEF PathTypes
  <2>5. SentInOrder'
    BY <1>0, <1>3, <2>3 DEF SentInOrder
  <2>6. \A p \in P!Parts : Accepted(p)' => Accepted(p) \/ p = air.part
    <3> SUFFICES ASSUME NEW p \in P!Parts, Accepted(p)', p # air.part
                 PROVE  Accepted(p)
      OBVIOUS
    <3>1. delivered'[p] > 0 \/ \E k \in 1..Len(queue') : queue'[k].part = p
      BY DEF Accepted
    <3>3. CASE delivered'[p] > 0
      <4>1. CASE delivered'[p] = delivered[p]
        BY <4>1, <3>3 DEF Accepted
      <4>2. CASE \E k \in 1..Len(queue) : queue[k].part = p
        BY <4>2 DEF Accepted
      <4> QED BY <4>1, <4>2, <2>2
    <3>4. CASE \E k \in 1..Len(queue') : queue'[k].part = p
      <4>1. PICK k \in 1..Len(queue') : queue'[k].part = p
        BY <3>4
      <4>2. \E m \in 1..Len(queue) : queue'[k].part = queue[m].part
        BY <4>1, <2>2
      <4> QED BY <4>1, <4>2 DEF Accepted
    <3> QED BY <3>1, <3>3, <3>4
  <2>t. (stray => key.id # 1)'
    <3>1. air.key \in 1..MaxKey /\ air.key <= key.id
      BY <1>0, <1>2, <1>f DEF SentInOrder, P!Frame
    <3>2. air.key # key.id => key.id # 1
      BY <3>1, <1>p, <1>0 DEF P!ConstantsOK
    <3>3. stray' => stray \/ air.key # key.id
      BY <1>8
    <3> QED BY <3>2, <3>3, <2>3 DEF OnceInv
  <2>u. ASSUME ~stray' PROVE AcceptedOnce' /\ Once'
    <3>s. ~stray /\ (P!replays_checked => air.key = key.id)
      BY <1>8, <2>u
    <3>a. AcceptedOnce /\ Once
      BY <3>s DEF OnceInv
    <3>1. ~Accepted(air.part)
      BY <3>s, <1>1, <1>8, PassesOnce
    <3>7. \A p \in P!Parts : Accepted(p)' => Before(p, NextPart')
      <4>1. Before(air.part, NextPart)
        BY <1>0, <1>2 DEF SentInOrder
      <4> QED BY <4>1, <2>6, <3>a, <1>6 DEF AcceptedOnce
    <3>8. ASSUME P!replays_checked', NEW k \in 1..Len(sent'), Accepted(sent[k].part)'
          PROVE  sent'[k].key < key'.id \/ sent'[k].iv <= key'.rx_seq
      <4>1. k \in 1..Len(sent) /\ sent'[k] = sent[k] /\ P!replays_checked /\ P!protects
        BY <1>1, <1>6, <3>8 DEF P!replays_checked, P!protects
      <4>2. sent[k].part \in P!Parts /\ sent[k].iv \in Nat /\ sent[k].key \in Nat
        BY <4>1, <1>0, <1>p, FrameFields
      <4>3. Accepted(sent[k].part) \/ sent[k].part = air.part
        BY <2>6, <3>8, <4>1, <4>2
      <4>4. CASE Accepted(sent[k].part)
        <5>1. sent[k].key < key.id \/ sent[k].iv <= key.rx_seq
          BY <4>1, <4>4, <3>a DEF AcceptedOnce
        <5>2. air.iv > key.rx_seq
          BY <1>8, <4>1 DEF Passes, P!r92su_rx_iv_handle
        <5>3. /\ key'.id = key.id /\ key'.rx_seq = air.iv
              /\ key.rx_seq \in Nat /\ air.iv \in Nat
          BY <4>1, <2>3, <1>f, <1>0, PeerFields
        <5>4. sent[k].key < key.id \/ sent[k].iv <= air.iv
          BY <5>1, <5>2, <5>3, <4>2
        <5> QED BY <5>3, <5>4, <4>1
      <4>5. CASE sent[k].part = air.part
        <5>1. ~(i < k) /\ ~(k < i)
          <6>1. ~Before(air.part, air.part)
            BY <1>0, <1>f, BeforeIrreflexive
          <6> QED BY <6>1, <4>1, <4>5, <1>0, <1>2 DEF SentInOrder
        <5>2. sent[k] = air
          BY <5>1, <4>1, <1>2, <1>p
        <5> QED BY <5>2, <4>1, <2>3, <1>f
      <4> QED BY <4>3, <4>4, <4>5
    <3>9. P!replays_checked' =>
            \A k \in 1..Len(sent') : Accepted(sent[k].part)' =>
              sent'[k].key < key'.id \/ sent'[k].iv <= key'.rx_seq
      BY <3>8
    <3>10. \A k \in 1..Len(queue) : queue[k].part \in P!Parts
      BY <1>0, <1>p, FrameFields
    <3>11. \A k \in 1..Len(queue) : delivered[queue[k].part] = 0
      BY <3>a DEF AcceptedOnce
    <3>12. delivered[air.part] = 0
      <4>1. delivered[air.part] \in 0..2
        BY <1>f, <1>p
      <4> QED BY <4>1, <3>1 DEF Accepted
    <3>13. \A k \in 1..Len(queue') : delivered'[queue'[k].part] = 0
      <4>1. CASE queue' = << >>
        BY <4>1
      <4>2. CASE delivered' = delivered
        BY <4>2, <2>2, <3>10, <3>11, <3>12
      <4> QED BY <4>1, <4>2, <2>2
    <3>14. AcceptedOnce'
      BY <3>7, <3>9, <3>13, <1>5, <1>6, <1>1 DEF AcceptedOnce
    <3>15. Once'
      <4> SUFFICES ASSUME NEW p \in P!Parts PROVE delivered'[p] <= 1
        BY DEF Once
      <4>1. CASE delivered'[p] = delivered[p]
        BY <4>1, <3>a DEF Once
      <4>2. CASE delivered'[p] = delivered[p] + 1 /\ delivered[p] = 0
        BY <4>2
      <4> QED BY <4>1, <4>2, <2>2, <3>11, <3>12
    <3> QED BY <3>14, <3>15
  <2> QED BY <2>4, <2>5, <2>t, <2>u, <1>0, <1>4
    DEF OnceInv, P!ConstantsOK, P!Frame
<1> QED BY <1>7, <1>8 DEF P!RxData, Passes

\* OnceInv is inductive.
LEMMA OnceNext ==
  ASSUME OnceInv, [P!Next]_P!vars
  PROVE  OnceInv'
<1>1. ASSUME NEW kind \in {"data", "mgmt"}, NEW n \in 1..MaxFrag, P!Send(kind, n)
      PROVE  OnceInv'
  BY <1>1, OnceSend
<1>2. ASSUME NEW i \in 1..Len(sent), P!Again(i)
      PROVE  OnceInv'
  BY <1>2, OnceAir DEF P!Again
<1>3. CASE P!Lost
  BY <1>3, OnceAir DEF P!Lost
<1>4. CASE P!Rekey
  BY <1>4, OnceRekey
<1>5. ASSUME NEW n \in BOOLEAN, P!RxData(n)
      PROVE  OnceInv'
  BY <1>5, OnceRxData
<1>6. CASE UNCHANGED P!vars
  <2>1. P!ConstantsOK' /\ NoFrame \notin P!Frame'
    BY DEF OnceInv, P!ConstantsOK, P!Frame
  <2>2. PathTypes'
    BY <1>6 DEF OnceInv, P!vars, PathTypes
  <2>3. SentInOrder' /\ ArrivesSent'
    BY <1>6
      DEF OnceInv, P!vars, SentInOrder, ArrivesSent, SeqOf, NextPart,
        P!replays_checked
  <2>4. \A p : Accepted(p)' <=> Accepted(p)
    BY <1>6 DEF P!vars, Accepted
  <2>5. AcceptedOnce' <=> AcceptedOnce
    BY <1>6, <2>4
      DEF P!vars, AcceptedOnce, Newest, NextPart, P!seq_ctrl, P!replays_checked
  <2>6. Once' <=> Once
    BY <1>6 DEF P!vars, Once
  <2>7. stray' = stray /\ key' = key
    BY <1>6 DEF P!vars
  <2>8. QED
    BY <2>1, <2>2, <2>3, <2>5, <2>6, <2>7 DEF OnceInv
<1> QED BY <1>1, <1>2, <1>3, <1>4, <1>5, <1>6 DEF P!Next

\* r92su_rx_deduplicate and r92su_rx_iv_handle let no fragment through a
\* second time, whatever the link loses or repeats, for every number of
\* MSDUs, fragments and keys, every cipher, every first sequence number and
\* every sequence space in which consecutive MSDUs differ, until a frame of
\* an earlier key that the hardware decrypted is accepted (CCMP): the stack
\* gets no fragment twice.
THEOREM DeliveredAtMostOnce ==
  ASSUME P!ConstantsOK, NoFrame \notin P!Frame
  PROVE  P!Spec => []AtMostOnce
<1>1. P!Init => OnceInv
  BY OnceInit
<1>2. OnceInv /\ [P!Next]_P!vars => OnceInv'
  BY OnceNext
<1>3. OnceInv => AtMostOnce
  BY DEF OnceInv, Once, AtMostOnce, P!Parts, Parts
<1> QED BY <1>1, <1>2, <1>3, PTL DEF P!Spec

-----------------------------------------------------------------------------

\* Consecutive MSDUs have different sequence numbers.
LEMMA NextSeqDiffers ==
  ASSUME P!ConstantsOK, NEW m \in Nat, m >= 1
  PROVE  m % Mod # (m - 1) % Mod
<1>1. Mod \in Nat /\ Mod >= 2
  BY DEF P!ConstantsOK
<1>2. /\ m = Mod * (m \div Mod) + (m % Mod)
      /\ m - 1 = Mod * ((m - 1) \div Mod) + ((m - 1) % Mod)
      /\ m \div Mod \in Int /\ (m - 1) \div Mod \in Int
  BY <1>1
<1> DEFINE a == m \div Mod
           b == (m - 1) \div Mod
<1> HIDE DEF a, b
<1>3. ASSUME m % Mod = (m - 1) % Mod
      PROVE  Mod * (a - b) = 1
  BY <1>1, <1>2, <1>3 DEF a, b
<1>4. \A c \in Int : Mod * c # 1
  <2> SUFFICES ASSUME NEW c \in Int, Mod * c = 1 PROVE FALSE
    OBVIOUS
  <2>1. CASE c <= 0
    <3>1. Mod * c <= 0
      BY <2>1, <1>1
    <3> QED BY <3>1
  <2>2. CASE c >= 1
    <3>1. Mod * c >= Mod
      BY <2>2, <1>1
    <3> QED BY <3>1, <1>1
  <2> QED BY <2>1, <2>2
<1>5. a - b \in Int
  BY <1>2 DEF a, b
<1> QED BY <1>3, <1>4, <1>5

\* The initial states.
LEMMA DroppedInit ==
  ASSUME P!ConstantsOK, NoFrame \notin P!Frame, P!Init
  PROVE  DroppedInv
<1>1. OnceInv
  BY OnceInit
<1>2. peer.msdu = 1 /\ peer.frag = 0 /\ peer.iv = FirstIv
  BY DEF P!Init
<1>3. sent = << >> /\ Len(sent) = 0 /\ rx_seq = <<0, 0>>
  BY DEF P!Init
<1>4. PassesFor(peer.iv)
  BY DEF P!Init, P!r92su_key_alloc, PassesFor, FirstSeq
<1>5. PeerFollows /\ Processed
  BY <1>2, <1>3 DEF PeerFollows, NextPart, Processed
<1>6. NothingMissed
  BY <1>2, <1>3, <1>4, <1>5 DEF NothingMissed
<1> QED BY <1>1, <1>5, <1>6 DEF DroppedInv

\* A new frame is not taken for a repetition, except the first.
LEMMA FreshFrame ==
  ASSUME OnceInv, PeerFollows, Processed, peer.msdu <= MaxMsdu,
         sent = << >> => SeqOf(1) # 0
  PROVE  rx_seq # <<SeqOf(peer.msdu), peer.frag>>
<1>0. P!ConstantsOK /\ PathTypes /\ SentInOrder
  BY DEF OnceInv
<1>1. peer.msdu \in Nat /\ peer.frag \in Nat /\ peer.msdu >= 1 /\ Len(sent) \in Nat
      /\ peer.start \in Nat
  BY <1>0, PeerFields
<1>2. CASE sent = << >>
  <2>1. peer.msdu = 1 /\ rx_seq = <<0, 0>>
    BY <1>2 DEF PeerFollows, NextPart
  <2> QED BY <2>1, <1>2
<1>3. CASE sent # << >>
  <2>1. Len(sent) \in 1..Len(sent)
    BY <1>0, <1>1, <1>3 DEF PathTypes
  <2>2. Newest \in P!Frame /\ Newest.part[1] \in Nat /\ Newest.part[2] \in Nat
        /\ Newest.seq = SeqOf(Newest.part[1])
        /\ Newest.more \in {"more", "last"}
    BY <2>1, <1>0, PeerFields, FrameFields DEF Newest, SentInOrder
  <2>3. rx_seq = <<Newest.seq, Newest.part[2]>>
    BY <1>3 DEF Processed, P!seq_ctrl
  <2>4. CASE Newest.more = "more"
    <3>1. Newest.part[2] = peer.frag - 1
      BY <2>4, <1>3 DEF PeerFollows
    <3>2. peer.frag - 1 # peer.frag
      BY <1>1
    <3> QED BY <3>1, <3>2, <2>3
  <2>5. CASE Newest.more = "last"
    <3>1. Newest.part[1] = peer.msdu - 1
      BY <2>5, <1>3 DEF PeerFollows
    <3>2. SeqOf(peer.msdu) # SeqOf(peer.msdu - 1)
      <4>1. peer.start + peer.msdu \in Nat /\ peer.start + peer.msdu >= 1
            /\ (peer.start + peer.msdu) - 1 = peer.start + (peer.msdu - 1)
        BY <1>1
      <4> QED BY <4>1, <1>0, NextSeqDiffers DEF SeqOf
    <3> QED BY <3>1, <3>2, <2>2, <2>3
  <2> QED BY <2>2, <2>4, <2>5
<1> QED BY <1>2, <1>3

\* The peer sends a frame: what was in the queue is what precedes it.
LEMMA DroppedSend ==
  ASSUME DroppedInv,
         NEW kind \in {"data", "mgmt"}, NEW n \in 1..MaxFrag, P!Send(kind, n)
  PROVE  DroppedInv'
<1> DEFINE f == NewFrame(kind)
<1>0. OnceInv /\ PeerFollows /\ P!ConstantsOK /\ PathTypes /\ SentInOrder
      /\ NoFrame \notin P!Frame
  BY DEF DroppedInv, OnceInv
<1>1. OnceInv'
  BY <1>0, OnceSend
<1>2. /\ f \in P!Frame /\ f.part = NextPart
      /\ f.seq = SeqOf(f.part[1]) /\ f.key = peer.key /\ f.iv = peer.iv
      /\ f.kind = kind
      /\ f.more = IF peer.frag + 1 = peer.nfrag THEN "last" ELSE "more"
      /\ air' = f /\ air' # NoFrame /\ air = NoFrame
      /\ sent' \in Seq(P!Frame) /\ Len(sent') = Len(sent) + 1
      /\ sent'[Len(sent) + 1] = f
      /\ \A i \in 1..Len(sent) : sent'[i] = sent[i]
      /\ peer'.iv = peer.iv + 1 /\ peer'.start = peer.start
      /\ peer.frag + 1 = peer.nfrag =>
              peer'.msdu = peer.msdu + 1 /\ peer'.frag = 0
      /\ peer.frag + 1 # peer.nfrag =>
              peer'.msdu = peer.msdu /\ peer'.frag = peer.frag + 1
      /\ kind = "mgmt" => peer.nfrag = 1
      /\ UNCHANGED <<cipher, medium, P!rxvars>>
  BY <1>0, SendEffect
<1>m. peer.msdu <= MaxMsdu
  BY DEF P!Send
<1> HIDE DEF f
<1>3. UNCHANGED <<cipher, medium, rx_seq, key, queue, size, out, delivered, stray>>
  BY <1>2 DEF P!rxvars
<1>p. /\ peer.msdu \in Nat /\ peer.frag \in Nat /\ peer.nfrag \in Nat /\ peer.iv \in Nat
      /\ Len(sent) \in Nat /\ key.rx_seq \in Nat
  BY <1>0, PeerFields
<1>4. Newest' = f /\ sent' # << >>
  BY <1>2, <1>p DEF Newest
<1>5. f.part = <<peer.msdu, peer.frag>> /\ f.part[1] = peer.msdu /\ f.part[2] = peer.frag
  BY <1>2 DEF NextPart
<1>6. PeerFollows'
  <2>1. CASE peer.frag + 1 = peer.nfrag
    <3>1. f.more = "last" /\ peer'.frag = 0 /\ f.part[1] = peer'.msdu - 1
      <4>1. f.more = "last" /\ peer'.frag = 0 /\ peer'.msdu = peer.msdu + 1
        BY <2>1, <1>2
      <4> QED BY <4>1, <1>5, <1>p
    <3> QED BY <3>1, <1>4 DEF PeerFollows
  <2>2. CASE peer.frag + 1 # peer.nfrag
    <3>1. f.more = "more" /\ peer'.frag - 1 = peer.frag /\ peer'.msdu = peer.msdu
      <4>1. f.more = "more" /\ peer'.frag = peer.frag + 1 /\ peer'.msdu = peer.msdu
        BY <2>2, <1>2
      <4> QED BY <4>1, <1>p
    <3>2. kind = "data"
      <4>1. peer.frag < peer.nfrag
        BY <1>0 DEF SentInOrder
      <4> QED BY <4>1, <2>2, <1>2, <1>p
    <3> QED BY <3>1, <3>2, <1>4, <1>2, <1>5 DEF PeerFollows
  <2> QED BY <2>1, <2>2
<1>7. ASSUME medium' = "good", key'.id = 1
      PROVE  NothingMissed'
  <2>1. NothingMissed
    BY <1>3, <1>7 DEF DroppedInv
  <2>2. Processed
    BY <2>1, <1>2 DEF NothingMissed
  <2>s. \A m : P!Spoiled(m) => P!Spoiled(m)'
    <3> SUFFICES ASSUME NEW m, P!Spoiled(m) PROVE P!Spoiled(m)'
      OBVIOUS
    <3>1. DOMAIN sent = 1..Len(sent) /\ DOMAIN sent' = 1..Len(sent')
      BY <1>0, <1>2 DEF PathTypes
    <3>2. PICK i \in 1..Len(sent) : sent[i].part[1] = m /\ P!Swallowed(sent[i])
      BY <3>1 DEF P!Spoiled
    <3>3. i \in 1..Len(sent') /\ sent'[i] = sent[i]
      BY <3>2, <1>2, <1>p
    <3>4. P!Swallowed(sent[i])'
      BY <3>2, <3>3, <1>3 DEF P!Swallowed
    <3> QED BY <3>1, <3>2, <3>3, <3>4 DEF P!Spoiled
  <2>3. ASSUME sent = << >>, SeqOf(1) = 0
        PROVE  f.part = <<1, 0>> /\ P!Spoiled(1)'
    <3>1. f.part = <<1, 0>> /\ f.seq = 0
      BY <2>3, <1>0, <1>2 DEF PeerFollows
    <3>2. Len(sent) + 1 \in DOMAIN sent' /\ sent'[Len(sent) + 1] = f
      BY <1>2, <1>p
    <3> QED BY <3>1, <3>2, <1>3 DEF P!Spoiled, P!Swallowed
  <2>4. ~Processed' \/ P!Spoiled(Newest.part[1])'
    <3>1. CASE sent = << >> /\ SeqOf(1) = 0
      <4>1. f.part[1] = 1
        BY <3>1, <2>3
      <4> QED BY <4>1, <3>1, <2>3, <1>4
    <3>2. CASE ~(sent = << >> /\ SeqOf(1) = 0)
      <4>1. rx_seq # P!seq_ctrl(f)
        BY <3>2, <2>2, <1>0, <1>m, <1>2, <1>5, FreshFrame DEF P!seq_ctrl
      <4> QED BY <4>1, <1>3, <1>4 DEF Processed, P!seq_ctrl
    <3> QED BY <3>1, <3>2
  <2>n. peer'.frag > 0 => peer'.msdu = f.part[1]
    BY <1>2, <1>5, <1>p
  <2>5. P!replays_checked' => PassesFor(peer.iv)' /\ PassesFor(Newest.iv)'
    <3>1. P!replays_checked' => PassesFor(peer.iv)
      BY <2>1, <1>3 DEF NothingMissed, P!replays_checked
    <3> QED BY <3>1, <1>2, <1>3, <1>4, <1>p DEF PassesFor, FirstSeq
  <2>6. \A i \in 1..Len(sent') : i < Len(sent') => Settled(sent[i])'
    <3> SUFFICES ASSUME NEW i \in 1..Len(sent'), i < Len(sent')
                 PROVE  Settled(sent[i])'
      OBVIOUS
    <3>1. i \in 1..Len(sent) /\ sent'[i] = sent[i]
      BY <1>2, <1>p
    <3>2. Settled(sent[i])
      BY <3>1, <2>1, <2>2 DEF NothingMissed
    <3>3. ~P!Spoiled(sent[i].part[1])' => ~P!Spoiled(sent[i].part[1])
      BY <3>1, <2>s
    <3> QED BY <3>1, <3>2, <3>3, <1>3 DEF Settled
  <2>8. P!Spoiled(Newest.part[1])' => Settled(Newest)'
    BY DEF Settled
  <2>7. cipher' # "ccmp" /\ f.part[2] > 0 /\ ~P!Spoiled(Newest.part[1])' =>
          QueueHolds(Newest.part[1], Newest.part[2])'
    <3> SUFFICES ASSUME cipher' # "ccmp", f.part[2] > 0, ~P!Spoiled(Newest.part[1])'
                 PROVE  QueueHolds(Newest.part[1], Newest.part[2])'
      OBVIOUS
    <3>0. Newest'.part[1] = peer.msdu /\ ~P!Spoiled(peer.msdu)
      BY <2>s, <1>4, <1>5
    <3>1. QueueHolds(peer.msdu, peer.frag)
      BY <3>0, <2>1, <2>2, <1>3, <1>5 DEF NothingMissed
    <3> QED BY <3>1, <1>2, <1>3, <1>4, <1>5 DEF QueueHolds, SeqOf
  <2>9. Processed' /\ peer'.frag > 0 => P!Spoiled(peer.msdu)'
    BY <2>4, <2>n, <1>4
  <2>10. \A i \in 1..Len(sent') : i < Len(sent') \/ Processed' => Settled(sent[i])'
    <3> SUFFICES ASSUME NEW i \in 1..Len(sent'), ~(i < Len(sent')), Processed'
                 PROVE  Settled(sent[i])'
      BY <2>6
    <3>1. i = Len(sent')
      BY <1>2, <1>p
    <3> QED BY <3>1, <2>4, <2>8 DEF Newest
  <2> QED BY <2>5, <2>7, <2>9, <2>10, <1>2, <1>4 DEF NothingMissed
<1> QED BY <1>0, <1>1, <1>6, <1>7 DEF DroppedInv

\* After a new key nothing is promised any more.
LEMMA DroppedRekey ==
  ASSUME DroppedInv, P!Rekey
  PROVE  DroppedInv'
<1>0. OnceInv /\ PeerFollows /\ P!ConstantsOK /\ PathTypes
  BY DEF DroppedInv, OnceInv
<1>1. OnceInv'
  BY <1>0, OnceRekey
<1>2. key'.id = key.id + 1 /\ UNCHANGED <<sent, rx_seq>>
      /\ peer' = [peer EXCEPT !.key = key.id + 1, !.iv = FirstIv]
  BY DEF P!Rekey, P!r92su_key_alloc
<1>3. key'.id # 1
  <2>1. key.id \in 1..MaxKey
    BY <1>0 DEF PathTypes
  <2> QED BY <2>1, <1>0, <1>2 DEF P!ConstantsOK
<1>4. peer'.msdu = peer.msdu /\ peer'.frag = peer.frag
  BY <1>0, <1>2 DEF PathTypes
<1>5. PeerFollows'
  BY <1>0, <1>2, <1>4 DEF PeerFollows, NextPart, Newest
<1> QED BY <1>0, <1>1, <1>3, <1>5 DEF DroppedInv

\* A frame that comes again, or is lost on a bad link.
LEMMA DroppedAir ==
  ASSUME DroppedInv, UNCHANGED <<cipher, medium, peer, sent, P!rxvars>>,
         \/ medium = "bad" /\ air' = NoFrame
         \/ air' # NoFrame /\ \E i \in 1..Len(sent) : P!Again(i)
  PROVE  DroppedInv'
<1>0. OnceInv /\ PeerFollows
  BY DEF DroppedInv
<1>1. OnceInv'
  BY <1>0, OnceAir
<1>2. UNCHANGED <<cipher, medium, peer, sent, rx_seq, key, queue, size, out,
                delivered, stray>>
  BY DEF P!rxvars
<1>3. PeerFollows'
  BY <1>0, <1>2 DEF PeerFollows, NextPart, Newest
<1>4. ASSUME medium' = "good", key'.id = 1
      PROVE  NothingMissed'
  <2>1. NothingMissed /\ air' # NoFrame
    BY <1>2, <1>4 DEF DroppedInv
  <2>2. (Processed' <=> Processed) /\ Newest' = Newest
        /\ (P!replays_checked' <=> P!replays_checked)
    BY <1>2 DEF Processed, Newest, P!seq_ctrl, P!replays_checked
  <2>s. \A m : P!Spoiled(m)' <=> P!Spoiled(m)
    BY <1>2 DEF P!Spoiled, P!Swallowed
  <2>3. \A i \in 1..Len(sent) : Settled(sent[i])' <=> Settled(sent[i])
    BY <1>2, <2>s DEF Settled
  <2>4. /\ QueueHolds(peer.msdu, peer.frag)' <=> QueueHolds(peer.msdu, peer.frag)
        /\ QueueHolds(Newest.part[1], Newest.part[2])'
             <=> QueueHolds(Newest.part[1], Newest.part[2])
    BY <1>2, <2>2 DEF QueueHolds, SeqOf
  <2>5. PassesFor(peer.iv)' <=> PassesFor(peer.iv)
    BY <1>2 DEF PassesFor, FirstSeq
  <2>6. PassesFor(Newest.iv)' <=> PassesFor(Newest.iv)
    BY <1>2, <2>2 DEF PassesFor, FirstSeq
  <2>7. P!Spoiled(peer.msdu)' <=> P!Spoiled(peer.msdu)
    BY <1>2, <2>s
  <2>8. P!Spoiled(Newest.part[1])' <=> P!Spoiled(Newest.part[1])
    BY <2>2, <2>s
  <2> QED BY <1>2, <2>1, <2>2, <2>3, <2>4, <2>5, <2>6, <2>7, <2>8 DEF NothingMissed
<1> QED BY <1>0, <1>1, <1>3, <1>4 DEF DroppedInv

\* A fragment that follows the queued ones is matched.
LEMMA FollowsMatches ==
  ASSUME P!ConstantsOK, PathTypes, NEW f \in P!Frame, cipher # "ccmp",
         f.part[2] > 0, f.seq = SeqOf(f.part[1]), QueueHolds(f.part[1], f.part[2])
  PROVE  P!r92su_check_if_match(f)
<1>1. queue \in Seq(P!Frame) /\ f.part[2] \in Nat /\ Len(queue) = f.part[2]
  BY FrameFields DEF PathTypes, QueueHolds
<1>2. Len(queue) \in 1..f.part[2] /\ queue # << >>
  BY <1>1
<1>3. queue[Len(queue)].seq = SeqOf(f.part[1])
  BY <1>2 DEF QueueHolds
<1> QED BY <1>2, <1>3 DEF P!r92su_check_if_match, P!Last

\* What was delivered stays delivered.
LEMMA DeliverKeeps ==
  ASSUME PathTypes, NEW s, P!Deliver(s)
  PROVE  /\ \A p \in P!Parts : delivered[p] > 0 => delivered'[p] > 0
         /\ \A i \in DOMAIN s : s[i].part \in P!Parts => delivered'[s[i].part] > 0
<1> DEFINE parts == [i \in DOMAIN s |-> s[i].part]
<1>1. delivered' = [p \in P!Parts |->
             IF p \in P!ToSet(parts) /\ delivered[p] < 2
             THEN delivered[p] + 1 ELSE delivered[p]]
  BY DEF P!Deliver
<1>2. \A i \in DOMAIN s : s[i].part \in P!ToSet(parts)
  BY DEF P!ToSet
<1> HIDE DEF parts
<1>3. \A p \in P!Parts : delivered[p] \in 0..2
  BY DEF PathTypes
<1>4. \A p \in P!Parts : delivered'[p] = IF p \in P!ToSet(parts) /\ delivered[p] < 2
             THEN delivered[p] + 1 ELSE delivered[p]
  BY <1>1
<1>5. \A p \in P!Parts : delivered[p] > 0 => delivered'[p] > 0
  BY <1>3, <1>4
<1>6. \A p \in P!ToSet(parts) : p \in P!Parts => delivered'[p] > 0
  BY <1>3, <1>4
<1> QED BY <1>2, <1>5, <1>6

\* With all fragments before it in the queue, a fragment is added to it, or
\* leaves with them.
LEMMA DefragFollows ==
  ASSUME P!ConstantsOK, PathTypes, medium = "good", peer' = peer,
         NEW f \in P!Frame, P!r92su_rx_defrag(f), f.seq = SeqOf(f.part[1]),
         cipher # "ccmp" /\ f.part[2] > 0 => QueueHolds(f.part[1], f.part[2])
  PROVE  /\ \A p \in P!Parts : delivered[p] > 0 => delivered'[p] > 0
         /\ f.more = "last" /\ (cipher = "ccmp" => f.part[2] = 0) =>
              \A k \in 0..f.part[2] : delivered'[<<f.part[1], k>>] > 0
         /\ f.more = "more" /\ cipher # "ccmp" =>
              QueueHolds(f.part[1], f.part[2] + 1)'
<1> DEFINE g == [f EXCEPT !.iv = 0]
<1>f. /\ f.part \in P!Parts /\ f.part[1] \in Nat /\ f.part[2] \in Nat
      /\ f.part = <<f.part[1], f.part[2]>>
      /\ g \in P!Frame /\ g.part = f.part /\ g.seq = f.seq
      /\ f.more \in {"more", "last"}
  BY FrameFields
<1>t. queue \in Seq(P!Frame) /\ Len(queue) \in Nat
  BY DEF PathTypes
<1> HIDE DEF g
<1>k. \A p \in P!Parts : UNCHANGED delivered => (delivered[p] > 0 => delivered'[p] > 0)
  OBVIOUS
<1>m. \A k \in 0..f.part[2] : <<f.part[1], k>> \in P!Parts
  <2>1. f.part[1] \in 1..MaxMsdu /\ f.part[2] \in 0..(MaxFrag - 1)
    BY <1>f DEF P!Parts
  <2>2. \A k \in 0..f.part[2] : k \in 0..(MaxFrag - 1)
    BY <2>1, <1>f DEF P!ConstantsOK
  <2> QED BY <2>1, <2>2 DEF P!Parts
<1>1. CASE f.more = "more" /\ f.part[2] = 0 /\ queue' = Append(<< >>, g)
           /\ UNCHANGED <<out, delivered>>
  <2>1. Len(queue') = 1 /\ queue'[1] = g
    BY <1>1
  <2>2. \A k \in 1..(f.part[2] + 1) :
          queue'[k].part = <<f.part[1], k - 1>> /\ queue'[k].seq = SeqOf(f.part[1])
    <3> SUFFICES ASSUME NEW k \in 1..(f.part[2] + 1)
                 PROVE  queue'[k].part = <<f.part[1], k - 1>>
                        /\ queue'[k].seq = SeqOf(f.part[1])
      OBVIOUS
    <3>1. k = 1 /\ k - 1 = f.part[2]
      BY <1>1
    <3> QED BY <3>1, <2>1, <1>f
  <2> QED BY <1>1, <1>k, <2>1, <2>2 DEF QueueHolds, SeqOf
<1>2. CASE f.more = "more" /\ f.part[2] # 0 /\ queue' = Append(queue, g)
           /\ UNCHANGED <<out, delivered>>
  <2>1. CASE cipher # "ccmp"
    <3>1. Len(queue) = f.part[2] /\ \A k \in 1..f.part[2] :
            queue[k].part = <<f.part[1], k - 1>> /\ queue[k].seq = SeqOf(f.part[1])
      BY <2>1, <1>2, <1>f DEF QueueHolds
    <3>2. Len(queue') = f.part[2] + 1 /\ queue'[f.part[2] + 1] = g
          /\ \A k \in 1..f.part[2] : queue'[k] = queue[k]
      BY <3>1, <1>2, <1>t, <1>f
    <3>3. \A k \in 1..(f.part[2] + 1) :
            queue'[k].part = <<f.part[1], k - 1>> /\ queue'[k].seq = SeqOf(f.part[1])
      <4> SUFFICES ASSUME NEW k \in 1..(f.part[2] + 1)
                   PROVE  queue'[k].part = <<f.part[1], k - 1>>
                          /\ queue'[k].seq = SeqOf(f.part[1])
        OBVIOUS
      <4>1. CASE k \in 1..f.part[2]
        BY <4>1, <3>1, <3>2
      <4>2. CASE k = f.part[2] + 1
        <5>1. k - 1 = f.part[2]
          BY <4>2, <1>f
        <5> QED BY <5>1, <4>2, <3>2, <1>f
      <4> QED BY <4>1, <4>2, <1>f
    <3> QED BY <3>2, <3>3, <1>2, <1>k DEF QueueHolds, SeqOf
  <2> QED BY <2>1, <1>2, <1>k
<1>3. CASE f.more = "last" /\ f.part[2] = 0 /\ P!Deliver(<<f>>)
  <2>1. 1 \in DOMAIN <<f>> /\ <<f>>[1] = f
    OBVIOUS
  <2>2. delivered'[f.part] > 0 /\ \A p \in P!Parts : delivered[p] > 0 => delivered'[p] > 0
    BY <2>1, <1>3, <1>f, DeliverKeeps
  <2>3. \A k \in 0..f.part[2] : <<f.part[1], k>> = f.part
    BY <1>3, <1>f
  <2> QED BY <2>2, <2>3, <1>3
<1>4. CASE f.more = "last" /\ f.part[2] # 0 /\ P!Deliver(Append(queue, f))
  <2>1. \A p \in P!Parts : delivered[p] > 0 => delivered'[p] > 0
    BY <1>4, DeliverKeeps
  <2>2. CASE cipher # "ccmp"
    <3>1. Len(queue) = f.part[2]
          /\ \A k \in 1..f.part[2] : queue[k].part = <<f.part[1], k - 1>>
      BY <2>2, <1>4, <1>f DEF QueueHolds
    <3>2. /\ DOMAIN Append(queue, f) = 1..(f.part[2] + 1)
          /\ Append(queue, f)[f.part[2] + 1] = f
          /\ \A k \in 1..f.part[2] : Append(queue, f)[k] = queue[k]
      BY <3>1, <1>t, <1>f
    <3>3. ASSUME NEW k \in 0..f.part[2]
          PROVE  delivered'[<<f.part[1], k>>] > 0
      <4>1. <<f.part[1], k>> \in P!Parts
        BY <1>m
      <4>2. k + 1 \in DOMAIN Append(queue, f)
            /\ Append(queue, f)[k + 1].part = <<f.part[1], k>>
        <5>1. CASE k = f.part[2]
          BY <5>1, <3>2, <1>f
        <5>2. CASE k # f.part[2]
          <6>1. k + 1 \in 1..f.part[2] /\ (k + 1) - 1 = k /\ k + 1 \in 1..(f.part[2] + 1)
            BY <5>2, <1>f
          <6> QED BY <6>1, <3>1, <3>2
        <5> QED BY <5>1, <5>2
      <4> QED BY <4>1, <4>2, <1>4, DeliverKeeps
    <3> QED BY <3>3, <2>1, <1>4
  <2> QED BY <2>1, <2>2, <1>4
<1>5. CASE f.part[2] # 0 /\ ~P!r92su_check_if_match(f) /\ UNCHANGED <<out, delivered>>
  <2>1. cipher = "ccmp"
    BY <1>5, <1>f, FollowsMatches
  <2> QED BY <2>1, <1>5, <1>k
<1> QED
  BY <1>1, <1>2, <1>3, <1>4, <1>5
  DEF P!r92su_rx_defrag, P!r92su_defrag_add, P!r92su_defrag_drop, g

\* r92su_rx_data takes the newest frame, or one it has processed already.
LEMMA DroppedRxData ==
  ASSUME DroppedInv, NEW n \in BOOLEAN, P!RxData(n)
  PROVE  DroppedInv'
<1>0. OnceInv /\ PeerFollows /\ P!ConstantsOK /\ PathTypes /\ SentInOrder
      /\ ArrivesSent
  BY DEF DroppedInv, OnceInv
<1>1. OnceInv'
  BY <1>0, OnceRxData
<1>2. air # NoFrame /\ rx_seq' = P!seq_ctrl(air) /\ UNCHANGED <<cipher, medium, peer, sent>>
  BY DEF P!RxData
<1>3. Len(sent) \in Nat /\ sent # << >>
  <2>1. Len(sent) \in Nat /\ \E i \in 1..Len(sent) : air = sent[i]
    BY <1>0, <1>2, PeerFields DEF ArrivesSent
  <2> QED BY <2>1
<1>4. PeerFollows'
  BY <1>0, <1>2, <1>3 DEF PeerFollows, NextPart, Newest
<1>5. ASSUME medium' = "good", key'.id = 1
      PROVE  NothingMissed'
  <2>1. key'.id = key.id /\ medium = "good"
    BY <1>2, <1>5, <1>0 DEF P!RxData, PathTypes
  <2>2. NothingMissed
    BY <2>1, <1>5 DEF DroppedInv
  <2>3. air = Newest /\ Len(sent) \in 1..Len(sent)
    BY <1>0, <1>2, <1>3, <2>1 DEF ArrivesSent, Newest
  <2>4. Processed'
    BY <2>3, <1>2 DEF Processed, Newest, P!seq_ctrl
  <2>5. (P!replays_checked' <=> P!replays_checked) /\ Newest' = Newest
    BY <1>2 DEF P!replays_checked, Newest
  <2>s. \A m : P!Spoiled(m)' <=> P!Spoiled(m)
    BY <1>2 DEF P!Spoiled, P!Swallowed
  <2>f. /\ air \in P!Frame /\ air.iv \in Nat /\ air.part[2] \in Nat /\ air.part[1] \in Nat
        /\ air.seq = SeqOf(air.part[1])
        /\ air.key = key.id /\ air.iv < peer.iv
        /\ air.kind \in {"data", "mgmt"} /\ air.more \in {"more", "last"}
    <3>1. air \in P!Frame /\ air.key \in Nat /\ air.key >= 1 /\ key.id \in Nat
      BY <1>0, <2>3, PeerFields, FrameFields DEF Newest
    <3>2. air.key <= key.id /\ (air.key = key.id => air.iv < peer.iv)
          /\ air.seq = SeqOf(air.part[1])
      BY <1>0, <2>3 DEF SentInOrder, Newest
    <3>3. air.key = key.id
      BY <3>1, <3>2, <2>1, <1>5
    <3> QED BY <3>1, <3>2, <3>3, <1>0, FrameFields
  <2>6. CASE Processed /\ UNCHANGED <<key, queue, size, out, delivered>>
    <3>1. \A i \in 1..Len(sent) : Settled(sent[i])' <=> Settled(sent[i])
      BY <1>2, <2>6, <2>s DEF Settled
    <3>2. QueueHolds(peer.msdu, peer.frag)' <=> QueueHolds(peer.msdu, peer.frag)
      BY <1>2, <2>6 DEF QueueHolds, SeqOf
    <3>3. PassesFor(peer.iv)' <=> PassesFor(peer.iv)
      BY <1>2, <2>6 DEF PassesFor, FirstSeq
    <3>4. P!Spoiled(peer.msdu)' <=> P!Spoiled(peer.msdu)
      BY <1>2, <2>s
    <3> QED BY <2>2, <2>4, <2>5, <2>6, <1>2, <3>1, <3>2, <3>3, <3>4 DEF NothingMissed
  <2>7. CASE /\ air.kind = "mgmt" \/ P!Swallowed(air)
             /\ ~Processed /\ UNCHANGED <<key, queue, size, out, delivered>>
    <3>0. P!Swallowed(air) => P!Spoiled(air.part[1])
      <4>1. Len(sent) \in DOMAIN sent /\ sent[Len(sent)] = air
        BY <2>3, <1>0 DEF Newest, PathTypes
      <4> QED BY <4>1 DEF P!Spoiled
    <3>1. peer.frag = 0 \/ P!Spoiled(peer.msdu)
      BY <3>0, <2>3, <2>7, <1>0, <1>3 DEF PeerFollows
    <3>2. \A i \in 1..Len(sent) : Settled(sent[i])'
      <4> SUFFICES ASSUME NEW i \in 1..Len(sent) PROVE Settled(sent[i])'
        OBVIOUS
      <4>1. CASE i < Len(sent)
        <5>1. Settled(sent[i])
          BY <4>1, <2>2 DEF NothingMissed
        <5> QED BY <5>1, <1>2, <2>7, <2>s DEF Settled
      <4>2. CASE i = Len(sent)
        BY <3>0, <4>2, <1>2, <2>3, <2>7, <2>s DEF Settled, Newest
      <4> QED BY <4>1, <4>2, <1>3
    <3>3. ~(peer'.frag > 0) \/ P!Spoiled(peer.msdu)'
      BY <3>1, <1>2, <2>s
    <3>4. PassesFor(peer.iv)' <=> PassesFor(peer.iv)
      BY <1>2, <2>7 DEF PassesFor, FirstSeq
    <3> QED BY <2>2, <2>4, <2>5, <2>7, <1>2, <3>2, <3>3, <3>4 DEF NothingMissed
  <2>8. ASSUME ~Processed, ~P!Swallowed(air)
        PROVE  P!r92su_rx_deduplicate(air) /\ P!r92su_rx_iv_handle(air)
               /\ P!r92su_rx_crypto_handle(air, n)
    <3>1. P!replays_checked => PassesFor(air.iv)
      BY <2>2, <2>3, <2>8 DEF NothingMissed
    <3>2. key.rx_seq \in Nat
      BY <1>0, PeerFields
    <3>3. P!replays_checked => air.iv > FirstSeq
      BY <2>8, <2>f DEF P!Swallowed, P!replays_checked, FirstSeq
    <3>4. P!replays_checked => air.iv > key.rx_seq
      BY <3>1, <3>2, <3>3, <2>f DEF PassesFor
    <3> QED BY <3>4, <2>f, <2>3, <2>8
      DEF P!r92su_rx_deduplicate, P!r92su_rx_iv_handle,
        P!r92su_rx_crypto_handle, Processed
  <2>9. CASE /\ Passes(air)
             /\ key' = IF P!protects THEN [key EXCEPT !.rx_seq = air.iv] ELSE key
             /\ P!r92su_rx_defrag(air)
    <3>1. ~Processed
      BY <2>9, <2>3, <1>3 DEF Passes, P!r92su_rx_deduplicate, Processed
    <3>2. ~P!Spoiled(air.part[1]) /\ cipher # "ccmp" /\ air.part[2] > 0 =>
            QueueHolds(air.part[1], air.part[2])
      BY <3>1, <2>2, <2>3 DEF NothingMissed
    <3>d. \A p \in P!Parts : delivered[p] > 0 => delivered'[p] > 0
      <4>1. \A p \in P!Parts : delivered'[p] = delivered[p] \/ delivered'[p] = delivered[p] + 1
        BY <1>0, <2>9, <2>f, DefragEffect
      <4>2. \A p \in P!Parts : delivered[p] \in 0..2
        BY <1>0, PeerFields
      <4> QED BY <4>1, <4>2
    <3>3. ~P!Spoiled(air.part[1]) =>
          /\ air.more = "last" /\ (cipher = "ccmp" => air.part[2] = 0) =>
              \A k \in 0..air.part[2] : delivered'[<<air.part[1], k>>] > 0
          /\ air.more = "more" /\ cipher # "ccmp" =>
              (Len(queue') = air.part[2] + 1 /\ \A k \in 1..(air.part[2] + 1) :
                queue'[k].part = <<air.part[1], k - 1>> /\ queue'[k].seq = SeqOf(air.part[1]))
      <4> HIDE DEF DroppedInv
      <4>0. peer' = peer
        BY <1>2
      <4>1. ~P!Spoiled(air.part[1]) => \A f \in P!Frame : f = air =>
           /\ f.more = "last" /\ (cipher = "ccmp" => f.part[2] = 0) =>
              \A k \in 0..f.part[2] : delivered'[<<f.part[1], k>>] > 0
           /\ f.more = "more" /\ cipher # "ccmp" =>
              QueueHolds(f.part[1], f.part[2] + 1)'
        BY <4>0, <3>2, <2>1, <2>9, <2>f, <1>0, DefragFollows
      <4>2. ASSUME ~P!Spoiled(air.part[1]), air.more = "more", cipher # "ccmp"
            PROVE  (Len(queue') = air.part[2] + 1 /\ \A k \in 1..(air.part[2] + 1) :
                queue'[k].part = <<air.part[1], k - 1>> /\ queue'[k].seq = SeqOf(air.part[1]))
        <5>1. PICK f \in P!Frame : f = air
          BY <2>f
        <5>2. QueueHolds(f.part[1], f.part[2] + 1)'
          BY <5>1, <4>1, <4>2
        <5> QED BY <5>1, <5>2, <4>0 DEF QueueHolds, SeqOf
      <4> QED BY <4>1, <4>2, <2>f
    <3>4. P!replays_checked' => PassesFor(peer.iv)'
      <4>1. key \in [id : 1..MaxKey, rx_seq : Nat]
        BY <1>0 DEF PathTypes
      <4>2. P!replays_checked => key'.rx_seq = air.iv
        BY <4>1, <2>9, <2>f DEF P!protects, P!replays_checked
      <4> QED BY <4>2, <2>5, <2>f, <1>2 DEF PassesFor
    <3>5. \A i \in 1..Len(sent) : Settled(sent[i])'
      <4> SUFFICES ASSUME NEW i \in 1..Len(sent) PROVE Settled(sent[i])'
        OBVIOUS
      <4>1. CASE i < Len(sent)
        <5>1. Settled(sent[i])
          BY <4>1, <2>2 DEF NothingMissed
        <5>2. \A k \in 0..sent[i].part[2] : <<sent[i].part[1], k>> \in P!Parts
          <6>1. sent[i].part \in P!Parts
            BY <1>0, PeerFields, FrameFields
          <6>2. sent[i].part[1] \in 1..MaxMsdu /\ sent[i].part[2] \in 0..(MaxFrag - 1)
            BY <6>1 DEF P!Parts
          <6>3. \A k \in 0..sent[i].part[2] : k \in 0..(MaxFrag - 1)
            BY <6>2, <1>0 DEF P!ConstantsOK
          <6> QED BY <6>2, <6>3 DEF P!Parts
        <5> QED BY <5>1, <5>2, <3>d, <1>2, <2>s DEF Settled
      <4>2. CASE i = Len(sent)
        BY <4>2, <1>2, <2>3, <3>3, <2>s DEF Settled, Newest
      <4> QED BY <4>1, <4>2, <1>3
    <3>6. ASSUME cipher' # "ccmp", peer'.frag > 0, ~P!Spoiled(peer.msdu)'
          PROVE  QueueHolds(peer.msdu, peer.frag)'
      <4>1. air.more = "more" /\ air.part = <<peer.msdu, peer.frag - 1>>
        <5>1. peer.frag # 0
          BY <3>6, <1>2
        <5> QED BY <5>1, <2>3, <1>0, <1>3 DEF PeerFollows
      <4>2. air.part[1] = peer.msdu /\ air.part[2] + 1 = peer.frag
        <5>1. peer.frag \in Nat
          BY <1>0, PeerFields
        <5> QED BY <5>1, <4>1
      <4>3. (Len(queue') = peer.frag /\ \A k \in 1..peer.frag :
                queue'[k].part = <<peer.msdu, k - 1>> /\ queue'[k].seq = SeqOf(peer.msdu))
        <5>1. ~P!Spoiled(air.part[1])
          BY <3>6, <4>2, <1>2, <2>s
        <5> QED BY <5>1, <3>3, <3>6, <4>1, <4>2, <1>2
      <4> QED BY <4>3, <1>2 DEF QueueHolds, SeqOf
    <3> QED BY <2>4, <3>4, <3>5, <3>6, <1>2 DEF NothingMissed
  <2> QED
    BY <2>f, <2>6, <2>7, <2>8, <2>9 DEF P!RxData, Passes
<1> QED BY <1>0, <1>1, <1>4, <1>5 DEF DroppedInv

\* DroppedInv is inductive.
LEMMA DroppedNext ==
  ASSUME DroppedInv, [P!Next]_P!vars
  PROVE  DroppedInv'
<1>1. ASSUME NEW kind \in {"data", "mgmt"}, NEW n \in 1..MaxFrag, P!Send(kind, n)
      PROVE  DroppedInv'
  BY <1>1, DroppedSend
<1>2. ASSUME NEW i \in 1..Len(sent), P!Again(i)
      PROVE  DroppedInv'
  <2>1. sent[i] \in P!Frame /\ NoFrame \notin P!Frame
    BY PeerFields DEF DroppedInv, OnceInv
  <2> QED BY <1>2, <2>1, DroppedAir DEF P!Again
<1>3. CASE P!Lost
  BY <1>3, DroppedAir DEF P!Lost
<1>4. CASE P!Rekey
  BY <1>4, DroppedRekey
<1>5. ASSUME NEW n \in BOOLEAN, P!RxData(n)
      PROVE  DroppedInv'
  BY <1>5, DroppedRxData
<1>6. CASE UNCHANGED P!vars
  <2>1. OnceInv'
    BY <1>6, OnceNext DEF DroppedInv
  <2>2. UNCHANGED <<cipher, medium, peer, sent, air, rx_seq, key, queue, delivered>>
    BY <1>6 DEF P!vars
  <2>3. PeerFollows'
    BY <2>2 DEF DroppedInv, PeerFollows, NextPart, Newest
  <2>4. \A m : P!Spoiled(m)' <=> P!Spoiled(m)
    BY <2>2 DEF P!Spoiled, P!Swallowed
  <2>5. (Processed' <=> Processed) /\ Newest' = Newest
        /\ (P!replays_checked' <=> P!replays_checked)
    BY <2>2 DEF Processed, Newest, P!seq_ctrl, P!replays_checked
  <2>6. \A i \in 1..Len(sent) : Settled(sent[i])' <=> Settled(sent[i])
    BY <2>2, <2>4 DEF Settled
  <2>7. (PassesFor(peer.iv)' <=> PassesFor(peer.iv))
        /\ (PassesFor(Newest.iv)' <=> PassesFor(Newest.iv))
    BY <2>2, <2>5 DEF PassesFor, FirstSeq
  <2>8. (QueueHolds(peer.msdu, peer.frag)' <=> QueueHolds(peer.msdu, peer.frag))
        /\ (QueueHolds(Newest.part[1], Newest.part[2])'
              <=> QueueHolds(Newest.part[1], Newest.part[2]))
    BY <2>2, <2>5 DEF QueueHolds, SeqOf
  <2>9. NothingMissed => NothingMissed'
    BY <2>2, <2>4, <2>5, <2>6, <2>7, <2>8 DEF NothingMissed
  <2> QED BY <2>1, <2>2, <2>3, <2>9 DEF DroppedInv
<1> QED BY <1>1, <1>2, <1>3, <1>4, <1>5, <1>6 DEF P!Next

\* DroppedInv implies the property.
LEMMA DroppedImplies ==
  ASSUME DroppedInv
  PROVE  P!NothingDropped
<1> SUFFICES ASSUME medium = "good", air = NoFrame, key.id = 1,
                    NEW i \in DOMAIN sent,
                    sent[i].kind = "data", sent[i].more = "last",
                    cipher = "ccmp" => sent[i].part[2] = 0,
                    ~P!Spoiled(sent[i].part[1]),
                    NEW k \in 0..sent[i].part[2]
             PROVE  delivered[<<sent[i].part[1], k>>] = 1
  BY DEF P!NothingDropped
<1>0. P!ConstantsOK /\ PathTypes /\ Once /\ NothingMissed
  BY DEF DroppedInv, OnceInv
<1>1. i \in 1..Len(sent)
  BY <1>0 DEF PathTypes
<1>2. Settled(sent[i])
  BY <1>0, <1>1 DEF NothingMissed
<1>3. <<sent[i].part[1], k>> \in P!Parts
  <2>1. sent[i].part \in P!Parts
    BY <1>0, <1>1, PeerFields, FrameFields
  <2>2. sent[i].part[1] \in 1..MaxMsdu /\ sent[i].part[2] \in 0..(MaxFrag - 1)
    BY <2>1 DEF P!Parts
  <2>3. k \in 0..(MaxFrag - 1)
    BY <2>2, <1>0 DEF P!ConstantsOK
  <2> QED BY <2>2, <2>3 DEF P!Parts
<1>4. delivered[<<sent[i].part[1], k>>] \in 0..2
  BY <1>0, <1>3, PeerFields
<1>5. delivered[<<sent[i].part[1], k>>] > 0
  BY <1>2 DEF Settled
<1>6. delivered[<<sent[i].part[1], k>>] <= 1
  BY <1>0, <1>3 DEF Once
<1> QED BY <1>4, <1>5, <1>6

\* On a link that loses nothing, under the first key, the checks of
\* r92su_rx_data (duplicates, packet numbers, matching fragments) drop nothing
\* but repetitions: every MSDU whose last fragment was processed was delivered
\* with all its fragments, once.  The exceptions are a fragmented MSDU under
\* CCMP, and an MSDU of which a frame was swallowed: the first frame with
\* sequence control 0, or a packet number that a new key starts with.
THEOREM GoodLinkDropsNothing ==
  ASSUME P!ConstantsOK, NoFrame \notin P!Frame
  PROVE  P!Spec => []NothingDropped
<1>1. P!Init => DroppedInv
  BY DroppedInit
<1>2. DroppedInv /\ [P!Next]_P!vars => DroppedInv'
  BY DroppedNext
<1>3. DroppedInv => NothingDropped
  BY DroppedImplies
     DEF P!NothingDropped, NothingDropped, P!Spoiled, Spoiled, P!Swallowed, Swallowed
<1> QED BY <1>1, <1>2, <1>3, PTL DEF P!Spec
=============================================================================
