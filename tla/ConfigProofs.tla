---------------------------- MODULE ConfigProofs ----------------------------
(***************************************************************************)
(* Proofs about ConfigJournal for every set of configurations, every       *)
(* number of slots and every bound on seq: a save that reports success is  *)
(* what the next boot loads, and the journal implements ConfigStore.       *)
(*                                                                         *)
(* The heart of it is that newest is the one record that all others come   *)
(* before, so that hk_config_load changes only with a record that is newer *)
(* than all others, and that the record being written is.                  *)
(***************************************************************************)
EXTENDS ConfigJournal, WellFoundedInduction, TLAPS

Sector == [Slots -> Record \cup {Free, Dirty, Junk}]

\* All other records come before that of slot i.
Newest(i) == /\ i \in Valid
             /\ \A j \in Valid : \/ slots[j].seq < slots[i].seq
                                 \/ slots[j].seq = slots[i].seq /\ i <= j

\* Every record comes before one numbered n, but for that of slot k.
Older(n, k) == \A i \in Valid : i # k => slots[i].seq < n

\* The inductive invariant.
JournalInv ==
  /\ slots \in Sector
  /\ pc \in {"idle", "erase", "write", "verify"}
  /\ pc # "idle" => body \in Bodies /\ next_seq \in Seqs
  /\ pc = "erase" => FirstFree = None
  /\ pc = "write" => /\ slot \in Slots /\ slot_is_free(slot)
                     /\ Older(next_seq, None)
  /\ pc = "verify" =>
       /\ slot \in Slots /\ Older(next_seq, slot)
       /\ slots[slot] \in
            {Junk, [kind |-> "valid", seq |-> next_seq, body |-> body]}
  /\ OkIsLoaded

-----------------------------------------------------------------------------
(* The newest record. *)

LEMMA LeastNat ==
  ASSUME NEW T \in SUBSET Nat, T # {}
  PROVE  \E x \in T : \A y \in T : x <= y
<1>1. \E x \in T : \A y \in T : <<y, x>> \notin OpToRel(<, Nat)
  BY WFMin, NatLessThanWellFounded
<1>2. PICK x \in T : \A y \in T : <<y, x>> \notin OpToRel(<, Nat)
  BY <1>1
<1>3. \A y \in T : ~(y < x)
  BY <1>2 DEF OpToRel
<1> QED
  BY <1>3

LEMMA ValidRecord ==
  slots \in Sector =>
    \A i \in Valid : i \in Slots /\ slots[i] \in Record
  BY DEF Sector, Valid, rec_valid, Record, Free, Dirty, Junk, Blank

LEMMA SomeNewest == slots \in Sector /\ Valid # {} => \E i \in Valid : Newest(i)
<1> SUFFICES ASSUME slots \in Sector, Valid # {} PROVE \E i \in Valid : Newest(i)
  OBVIOUS
<1>1. \A i \in Valid : i \in Nat /\ slots[i].seq \in Seqs
  BY ValidRecord, JournalAssumption DEF Record, Slots
<1> DEFINE Left == {MaxSeq - slots[i].seq : i \in Valid}
<1>2. Left \in SUBSET Nat /\ Left # {}
  <2>1. \A i \in Valid : MaxSeq - slots[i].seq \in Nat
    BY <1>1, JournalAssumption DEF Seqs
  <2> QED
    BY <2>1
<1>3. PICK n \in Left : \A m \in Left : n <= m
  BY <1>2, LeastNat
<1>4. PICK k \in Valid : n = MaxSeq - slots[k].seq
  BY <1>3
<1>5. \A j \in Valid : slots[j].seq <= slots[k].seq
  <2>1. \A j \in Valid : MaxSeq - slots[k].seq <= MaxSeq - slots[j].seq
    BY <1>3, <1>4
  <2>2. MaxSeq \in Int /\ \A j \in Valid : slots[j].seq \in Int
    BY <1>1, JournalAssumption DEF Seqs
  <2> QED
    BY <2>1, <2>2
<1> DEFINE First == {i \in Valid : slots[i].seq = slots[k].seq}
<1>6. First \in SUBSET Nat /\ First # {}
  BY <1>1
<1>7. PICK i \in First : \A j \in First : i <= j
  BY <1>6, LeastNat
<1>8. \A j \in Valid : \/ slots[j].seq < slots[i].seq
                       \/ slots[j].seq = slots[i].seq /\ i <= j
  <2>1. slots[i].seq = slots[k].seq /\ i \in Valid
    BY <1>7
  <2>2. \A j \in Valid : slots[j].seq = slots[k].seq => i <= j
    BY <1>7
  <2>3. \A j \in Valid : slots[j].seq \in Int
    BY <1>1 DEF Seqs
  <2> QED
    BY <1>5, <2>1, <2>2, <2>3
<1> QED
  BY <1>8 DEF Newest

LEMMA NewestIs == slots \in Sector /\ Valid # {} => Newest(newest)
  BY SomeNewest DEF newest, Newest

\* Two records cannot come after each other.
LEMMA NewestOnly == slots \in Sector => \A i : Newest(i) => newest = i
<1> SUFFICES ASSUME slots \in Sector, NEW i, Newest(i) PROVE newest = i
  OBVIOUS
<1>1. Newest(newest)
  BY NewestIs DEF Newest
<1>2. /\ i \in Int /\ newest \in Int
      /\ slots[i].seq \in Int /\ slots[newest].seq \in Int
  BY <1>1, ValidRecord DEF Newest, Record, Slots, Seqs
<1> QED
  BY <1>1, <1>2 DEF Newest

LEMMA LoadType == slots \in Sector => hk_config_load \in Bodies \cup {Defaults}
  BY NewestIs, ValidRecord DEF Newest, hk_config_load, Record

\* A record numbered after all others is the one that is loaded.
LEMMA LoadNewest ==
  slots \in Sector =>
    \A k \in Valid : Older(slots[k].seq, k) => hk_config_load = slots[k].body
<1> SUFFICES ASSUME slots \in Sector, NEW k \in Valid, Older(slots[k].seq, k)
             PROVE  hk_config_load = slots[k].body
  OBVIOUS
<1>1. Newest(k)
  BY ValidRecord DEF Newest, Older, Slots, Record
<1> QED
  BY <1>1, NewestOnly DEF hk_config_load

\* Slots that hold no record do not count.
LEMMA LoadKept ==
  ASSUME slots \in Sector, slots' \in Sector, Valid' = Valid,
         \A i \in Valid : slots'[i] = slots[i]
  PROVE  hk_config_load' = hk_config_load
<1>1. CASE Valid = {}
  BY <1>1 DEF hk_config_load
<1>2. CASE Valid # {}
  <2>1. Newest(newest)' /\ newest' \in Valid
    <3>1. (slots \in Sector /\ Valid # {} => Newest(newest))'
      BY NewestIs, PTL
    <3> QED
      BY <1>2, <3>1 DEF Newest
  <2>2. Newest(newest')
    BY <2>1 DEF Newest
  <2>3. newest = newest'
    BY <2>2, NewestOnly
  <2> QED
    BY <1>2, <2>1, <2>3 DEF hk_config_load
<1> QED
  BY <1>1, <1>2

LEMMA FirstFreeIs ==
  \/ FirstFree = None /\ \A i \in Slots : ~slot_is_free(i)
  \/ FirstFree \in Slots /\ slot_is_free(FirstFree)
<1>1. CASE \A i \in Slots : ~slot_is_free(i)
  BY <1>1 DEF FirstFree
<1>2. CASE \E i \in Slots : slot_is_free(i)
  <2> DEFINE Frees == {i \in Slots : slot_is_free(i)}
  <2>1. PICK k \in Frees : \A i \in Frees : k <= i
    <3>1. Frees \in SUBSET Nat /\ Frees # {}
      BY <1>2, JournalAssumption DEF Slots
    <3> QED
      BY <3>1, LeastNat
  <2>2. slot_is_free(k) /\ \A j \in 0 .. k - 1 : ~slot_is_free(j)
    <3>1. k \in 0 .. Last /\ \A j \in 0 .. k - 1 : j \in Slots /\ ~(k <= j)
      BY JournalAssumption DEF Slots
    <3> QED
      BY <2>1, <3>1
  <2> QED
    BY <1>2, <2>2 DEF FirstFree
<1> QED
  BY <1>1, <1>2
-----------------------------------------------------------------------------
(* The invariant. *)

LEMMA JournalInit == Init => JournalInv
<1> SUFFICES ASSUME Init PROVE JournalInv
  OBVIOUS
<1>1. slots \in Sector
  BY DEF Init, Sector
<1> QED
  BY <1>1 DEF Init, JournalInv, OkIsLoaded

LEMMA SeqIsNext ==
  slots \in Sector /\ SeqAfter <= MaxSeq =>
    SeqAfter \in Seqs /\ Older(SeqAfter, None)
<1> SUFFICES ASSUME slots \in Sector, SeqAfter <= MaxSeq
             PROVE  SeqAfter \in Seqs /\ Older(SeqAfter, None)
  OBVIOUS
<1>1. \A i \in Valid : slots[i].seq \in Seqs
  BY ValidRecord DEF Record
<1>2. CASE Valid = {}
  BY <1>2, JournalAssumption DEF SeqAfter, Older, Seqs
<1>3. CASE Valid # {}
  <2>1. newest \in Valid /\ \A j \in Valid : slots[j].seq <= slots[newest].seq
    BY <1>1, <1>3, NewestIs DEF Newest, Seqs
  <2> QED
    BY <1>1, <1>3, <2>1, JournalAssumption DEF SeqAfter, Older, Seqs
<1> QED
  BY <1>2, <1>3

\* Whatever interrupts a save leaves a sector.
LEMMA InterruptedSector ==
  JournalInv /\ pc # "idle" => Interrupted \subseteq Sector
<1> SUFFICES ASSUME JournalInv, pc # "idle", NEW s \in Interrupted
             PROVE  s \in Sector
  OBVIOUS
<1>1. slots \in Sector /\ \A i \in Slots : slots[i] \in Record \cup {Free, Dirty, Junk}
  BY DEF JournalInv, Sector
<1>2. CASE pc = "erase"
  BY <1>1, <1>2 DEF Interrupted, HalfErased, Sector
<1>3. CASE pc = "write"
  <2>1. Programmed \subseteq Record \cup {Free, Dirty, Junk}
    BY <1>3 DEF JournalInv, Programmed, Record
  <2> QED
    BY <1>1, <1>3, <2>1 DEF Interrupted, HalfWritten, Sector, JournalInv
<1>4. CASE pc \notin {"erase", "write"}
  BY <1>1, <1>4 DEF Interrupted
<1> QED
  BY <1>2, <1>3, <1>4

LEMMA JournalNext == JournalInv /\ [Next]_vars => JournalInv'
<1> SUFFICES ASSUME JournalInv, [Next]_vars PROVE JournalInv'
  OBVIOUS
<1>1. CASE \E b \in Bodies : Save(b)
  <2>1. PICK b \in Bodies : Save(b)
    BY <1>1
  <2>2. slots' = slots /\ pc' \in {"erase", "write"} /\ next_seq' = SeqAfter
        /\ slot' = FirstFree /\ body' = b
    BY <2>1 DEF Save
  <2>3. next_seq' \in Seqs /\ Older(next_seq, None)'
    BY <2>1, <2>2, SeqIsNext DEF Save, JournalInv, Older, Valid
  <2>4. CASE FirstFree = None
    BY <2>1, <2>2, <2>3, <2>4
       DEF Save, JournalInv, OkIsLoaded, FirstFree, slot_is_free
  <2>5. CASE FirstFree # None
    <3>1. FirstFree \in Slots /\ slot_is_free(FirstFree)
      BY <2>5, FirstFreeIs
    <3>2. pc' = "write"
      BY <2>1, <2>5 DEF Save
    <3>3. slot_is_free(slot)'
      BY <2>2, <3>1 DEF slot_is_free
    <3> QED
      BY <2>2, <2>3, <3>1, <3>2, <3>3 DEF JournalInv, OkIsLoaded
  <2> QED
    BY <2>4, <2>5
<1>2. CASE EraseDone
  <2>1. slots' = [i \in Slots |-> Free] /\ 0 \in Slots /\ pc' = "write" /\ slot' = 0
    BY <1>2, JournalAssumption DEF EraseDone, Slots
  <2>2. slots' \in Sector /\ Valid' = {} /\ slot_is_free(slot)'
    BY <2>1 DEF Sector, Valid, rec_valid, slot_is_free, Free, Blank
  <2> QED
    BY <1>2, <2>1, <2>2 DEF EraseDone, JournalInv, Older, OkIsLoaded
<1>3. CASE WriteDone
  <2>1. PICK s \in Programmed : slots' = [slots EXCEPT ![slot] = s]
    BY <1>3 DEF WriteDone
  <2>2. s \in {Junk, [kind |-> "valid", seq |-> next_seq, body |-> body]}
    BY DEF Programmed
  <2>3. /\ slots \in Sector /\ slot \in Slots /\ Older(next_seq, None)
        /\ body \in Bodies /\ next_seq \in Seqs /\ pc' = "verify"
        /\ slot' = slot /\ next_seq' = next_seq /\ body' = body
    BY <1>3 DEF WriteDone, JournalInv, save
  <2>4. slots' \in Sector /\ slots'[slot] = s
        /\ \A i \in Slots : i # slot => slots'[i] = slots[i]
    BY <2>1, <2>2, <2>3 DEF Sector, Record
  <2>5. Older(next_seq, slot)'
    <3>1. \A i \in Valid : slots[i].seq < next_seq
      BY <2>3, JournalAssumption DEF Older, Valid, None, Slots
    <3>2. \A i \in Valid' : i # slot => i \in Valid /\ slots'[i] = slots[i]
      BY <2>4 DEF Valid, rec_valid
    <3> QED
      BY <2>3, <3>1, <3>2 DEF Older
  <2> QED
    BY <2>2, <2>3, <2>4, <2>5 DEF JournalInv, OkIsLoaded
<1>4. CASE Verify
  <2>1. /\ slots' = slots /\ pc' = "idle" /\ body' = body
        /\ result' = "ok" => rec_valid(slots[slot]) /\ slots[slot].seq = next_seq
    BY <1>4 DEF Verify, Return, save
  <2>2. result' = "ok" => hk_config_load = body
    <3> SUFFICES ASSUME result' = "ok" PROVE hk_config_load = body
      OBVIOUS
    <3>1. slot \in Valid /\ Older(slots[slot].seq, slot) /\ slots[slot].body = body
      BY <1>4, <2>1 DEF Verify, JournalInv, Valid, rec_valid, Junk, Blank
    <3> QED
      BY <3>1, LoadNewest DEF JournalInv
  <2>3. hk_config_load' = hk_config_load
    BY <2>1 DEF hk_config_load, newest, Valid
  <2> QED
    BY <2>1, <2>2, <2>3 DEF JournalInv, OkIsLoaded
<1>5. CASE FlashFails \/ PowerLoss
  <2>1. slots' \in Sector /\ pc' = "idle" /\ result' # "ok"
    BY <1>5, InterruptedSector DEF FlashFails, PowerLoss, Return
  <2> QED
    BY <2>1 DEF JournalInv, OkIsLoaded
<1>6. CASE UNCHANGED vars
  BY <1>6 DEF vars, save, JournalInv, OkIsLoaded, Older, Valid, FirstFree,
              slot_is_free, hk_config_load, newest
<1> QED
  BY <1>1, <1>2, <1>3, <1>4, <1>5, <1>6 DEF Next

LEMMA JournalHolds == Spec => []JournalInv
  BY JournalInit, JournalNext, PTL DEF Spec

\* Every save that reports HK_OK is what the next boot loads, whatever torn
\* writes, failed saves and erases came before it (config.c:38-56, 95-119).
THEOREM OkLoads == Spec => []OkIsLoaded
<1>1. JournalInv => OkIsLoaded
  BY DEF JournalInv
<1> QED
  BY JournalHolds, <1>1, PTL

-----------------------------------------------------------------------------
(* The refinement. *)

LEMMA StoreInit == Init => Store!Init
<1> SUFFICES ASSUME Init PROVE Store!Init
  OBVIOUS
<1>1. Valid = {}
  BY DEF Init, Valid, rec_valid, Free, Blank
<1> QED
  BY <1>1 DEF Init, Store!Init, hk_config_load

\* A write replaces the stored configuration or leaves it.
LEMMA WriteLoads ==
  ASSUME JournalInv, pc = "write",
         NEW s \in Programmed \cup {slots[slot]},
         slots' = [slots EXCEPT ![slot] = s]
  PROVE  hk_config_load' \in {hk_config_load, body}
<1>1. /\ slots \in Sector /\ slot \in Slots /\ Older(next_seq, None)
      /\ body \in Bodies /\ next_seq \in Seqs
      /\ slots[slot] \in {Free, Dirty}
  BY DEF JournalInv, slot_is_free
<1> DEFINE New == [kind |-> "valid", seq |-> next_seq, body |-> body]
<1>2. s \in {Junk, Free, Dirty, New}
  BY <1>1 DEF Programmed
<1>3. slots' \in Sector /\ slots'[slot] = s
      /\ \A i \in Slots : i # slot => slots'[i] = slots[i]
  BY <1>1, <1>2 DEF Sector, Record
<1>4. slot \notin Valid
  BY <1>1 DEF Valid, rec_valid, Free, Dirty, Blank
<1>5. CASE s = New
  <2>1. slot \in Valid' /\ slots'[slot].seq = next_seq /\ slots'[slot].body = body
    BY <1>1, <1>3, <1>5 DEF Valid, rec_valid
  <2>2. \A i \in Valid' : i # slot => slots'[i].seq < next_seq
    <3>1. \A i \in Valid : slots[i].seq < next_seq
      BY <1>1, JournalAssumption DEF Older, Valid, None, Slots
    <3> QED
      BY <1>3, <3>1 DEF Valid, rec_valid
  <2>3. (slots \in Sector =>
           \A k \in Valid : Older(slots[k].seq, k) => hk_config_load = slots[k].body)'
    BY LoadNewest, PTL
  <2>4. \A i \in Valid' : i # slot => slots'[i].seq < slots'[slot].seq
    BY <2>1, <2>2
  <2> QED
    BY <1>3, <2>1, <2>3, <2>4 DEF Older
<1>6. CASE s # New
  <2>1. s.kind # "valid"
    BY <1>2, <1>6 DEF Junk, Free, Dirty, Blank
  <2>2. Valid' = Valid /\ \A i \in Valid : slots'[i] = slots[i]
    BY <1>3, <1>4, <2>1 DEF Valid, rec_valid
  <2> QED
    BY <1>1, <1>3, <2>2, LoadKept
<1> QED
  BY <1>5, <1>6

\* What the store sees of a save.
saving == IF pc = "idle" THEN NoBody ELSE body
full   == pc = "erase" /\ FirstFree = None

LEMMA StoreStep ==
  JournalInv /\ JournalInv' /\ [Next]_vars
    => [Store!Next]_<<hk_config_load, saving, full>>
<1> SUFFICES ASSUME JournalInv, JournalInv', [Next]_vars
             PROVE  \/ Store!Next
                    \/ /\ hk_config_load' = hk_config_load
                       /\ saving' = saving /\ full' = full
  OBVIOUS
<1>1. full = (pc = "erase") /\ full' = (pc' = "erase")
  BY DEF full, JournalInv
<1>2. pc # "idle" => saving = body /\ body \in Bodies /\ body # NoBody
  BY JournalAssumption DEF saving, JournalInv
<1>3. CASE \E b \in Bodies : Save(b)
  <2>1. PICK b \in Bodies : Save(b)
    BY <1>3
  <2>2. pc = "idle" /\ slots' = slots /\ body' = b /\ pc' # "idle"
    BY <2>1 DEF Save
  <2>3. saving = NoBody /\ saving' = b /\ full' \in BOOLEAN
    BY <1>1, <2>2 DEF saving
  <2>4. hk_config_load' = hk_config_load
    BY <2>2 DEF hk_config_load, newest, Valid
  <2>5. Store!Begin(b)
    BY <2>3, <2>4 DEF Store!Begin, saving, full
  <2> QED
    BY <2>5 DEF Store!Next
<1>4. CASE EraseDone
  <2>1. pc = "erase" /\ pc' = "write" /\ body' = body
        /\ slots' = [i \in Slots |-> Free]
    BY <1>4 DEF EraseDone
  <2>2. hk_config_load' = Defaults
    BY <2>1 DEF hk_config_load, Valid, rec_valid, Free, Blank
  <2>3. full /\ ~full' /\ saving' = saving
    BY <1>1, <2>1 DEF saving
  <2>4. Store!Lose
    BY <2>2, <2>3 DEF Store!Lose, saving, full
  <2> QED
    BY <2>4 DEF Store!Next
<1>5. CASE WriteDone
  <2>1. PICK s \in Programmed : slots' = [slots EXCEPT ![slot] = s]
    BY <1>5 DEF WriteDone
  <2>2. pc = "write" /\ pc' = "verify" /\ body' = body
    BY <1>5 DEF WriteDone, save
  <2>3. hk_config_load' \in {hk_config_load, body}
    BY <2>1, <2>2, WriteLoads
  <2>4. saving' = saving /\ full' = full
    BY <1>1, <2>2 DEF saving
  <2>5. CASE hk_config_load' = body
    <3>1. Store!Commit
      BY <1>2, <2>2, <2>4, <2>5 DEF Store!Commit, saving, full
    <3> QED
      BY <3>1 DEF Store!Next
  <2> QED
    BY <2>3, <2>4, <2>5
<1>6. CASE Verify \/ FlashFails \/ PowerLoss
  <2>1. pc # "idle" /\ pc' = "idle"
    BY <1>6 DEF Verify, FlashFails, PowerLoss, Return
  <2>2. saving # NoBody /\ saving' = NoBody /\ ~full'
    BY <1>1, <1>2, <2>1 DEF saving
  <2>3. hk_config_load' \in IF full THEN Bodies \cup {Defaults}
                            ELSE {hk_config_load, saving}
    <3>1. CASE pc = "erase"
      <4>1. (slots \in Sector => hk_config_load \in Bodies \cup {Defaults})'
        BY LoadType, PTL
      <4> QED
        BY <1>1, <3>1, <4>1 DEF JournalInv
    <3>2. CASE pc = "write"
      <4>1. PICK s \in Programmed \cup {slots[slot]} : slots' = [slots EXCEPT ![slot] = s]
        BY <1>6, <3>2 DEF Verify, FlashFails, PowerLoss, Interrupted, HalfWritten
      <4> QED
        BY <1>1, <1>2, <3>2, <4>1, WriteLoads
    <3>3. CASE pc = "verify"
      <4>1. slots' = slots
        BY <1>6, <3>3 DEF Verify, FlashFails, PowerLoss, Interrupted
      <4>2. hk_config_load' = hk_config_load
        BY <4>1 DEF hk_config_load, newest, Valid
      <4>3. ~full
        BY <1>1, <3>3
      <4> QED
        BY <4>2, <4>3
    <3> QED
      BY <2>1, <3>1, <3>2, <3>3 DEF JournalInv
  <2>4. Store!End
    BY <2>2, <2>3 DEF Store!End, Store!Configs, saving, full
  <2> QED
    BY <2>4 DEF Store!Next
<1>7. CASE UNCHANGED vars
  BY <1>7 DEF vars, save, saving, full, FirstFree, slot_is_free,
              hk_config_load, newest, Valid
<1> QED
  BY <1>3, <1>4, <1>5, <1>6, <1>7 DEF Next

\* The journal is an all-or-nothing store: through torn writes, failed saves
\* and power losses one configuration stays stored, the old or the new one,
\* and only a save that finds no free slot may lose it (config.c:101-115).
THEOREM JournalImplements == Spec => ImplementsStore
<1>1. Store!Init /\ [][Store!Next]_<<hk_config_load, saving, full>>
        => ImplementsStore
  BY DEF ImplementsStore, Store!Spec, saving, full
<1> QED
  BY JournalInit, JournalNext, StoreInit, StoreStep, <1>1, PTL DEF Spec
=============================================================================
