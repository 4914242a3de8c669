--------------------------- MODULE ConfigJournal ---------------------------
(***************************************************************************)
(* The configuration journal of App/services/config/config.c in one flash  *)
(* sector (App/bsp/nv_flash_stm32.c): hk_config_save step by step, with    *)
(* power loss between and during the steps, failing programs and erases.   *)
(*                                                                         *)
(* A slot holds a valid record, nothing, or bytes that no CRC accepts.     *)
(* An interrupted erase leaves a sector in an undefined state; a slot may  *)
(* then look free, its first 8 bytes being 0xFF, and not be erased behind  *)
(* them.                                                                   *)
(***************************************************************************)
EXTENDS Integers

CONSTANTS
  Bodies,    \* the hk_config_body_t values saved
  Defaults,  \* hk_config_defaults
  Last,      \* index of the last slot of the sector
  MaxSeq     \* the highest seq (2^32 - 1; the journal wears out long before)

Blank(kind) == [kind |-> kind, seq |-> 0, body |-> Defaults]

Free  == Blank("free")
Dirty == Blank("dirty")   \* looks free, is not
Junk  == Blank("junk")    \* neither free nor valid

NoBody == "nobody"

ASSUME JournalAssumption ==
  /\ Last \in Nat /\ MaxSeq \in Nat \ {0}
  /\ NoBody \notin Bodies \cup {Defaults}

Slots == 0 .. Last
None  == Last + 1
Seqs  == 1 .. MaxSeq

VARIABLES
  slots,               \* the sector
  pc,                  \* where hk_config_save is
  body, next_seq, slot,  \* its argument and its locals
  result               \* what the last call returned

save == <<body, next_seq, slot>>
vars == <<slots, pc, save, result>>

Record == [kind : {"valid"}, seq : Seqs, body : Bodies]

rec_valid(s) == s.kind = "valid"
Valid        == {i \in Slots : rec_valid(slots[i])}

\* find_newest: the highest seq, and the first slot of those that share it.
newest == CHOOSE i \in Valid :
            \A j \in Valid : \/ slots[j].seq < slots[i].seq
                             \/ slots[j].seq = slots[i].seq /\ i <= j

hk_config_load == IF Valid = {} THEN Defaults ELSE slots[newest].body

slot_is_free(i) == slots[i] \in {Free, Dirty}

FirstFree == IF \A i \in Slots : ~slot_is_free(i) THEN None
             ELSE CHOOSE i \in Slots :
                    slot_is_free(i) /\ \A j \in 0 .. i - 1 : ~slot_is_free(j)

\* Mutant: every record is number 1.
SeqConstant == 1

SeqAfter == IF Valid = {} THEN 1 ELSE slots[newest].seq + 1

-----------------------------------------------------------------------------
(* hk_config_save. *)

\* Mutant: the sector is taken for full while there is room in it.
SaveEarly(b) ==
  /\ pc = "idle" /\ SeqAfter <= MaxSeq
  /\ body' = b /\ next_seq' = SeqAfter
  /\ slot' = FirstFree
  /\ pc' = IF FirstFree \in {None, Last} THEN "erase" ELSE "write"
  /\ UNCHANGED <<slots, result>>

\* From the call to the first access that changes the flash.
Save(b) ==
  /\ pc = "idle" /\ SeqAfter <= MaxSeq
  /\ body' = b /\ next_seq' = SeqAfter
  /\ slot' = FirstFree
  /\ pc' = IF FirstFree = None THEN "erase" ELSE "write"
  /\ UNCHANGED <<slots, result>>

Return(r) == pc' = "idle" /\ result' = r /\ UNCHANGED save

EraseDone ==
  /\ pc = "erase"
  /\ slots' = [i \in Slots |-> Free]
  /\ slot' = 0
  /\ pc' = "write"
  /\ UNCHANGED <<body, next_seq, result>>

\* What the slot may read once every byte is programmed: the record, unless
\* a cell was not erased or has failed.
Programmed ==
  IF slots[slot] = Free
  THEN {Junk, [kind |-> "valid", seq |-> next_seq, body |-> body]}
  ELSE {Junk}

WriteDone ==
  /\ pc = "write"
  /\ \E s \in Programmed : slots' = [slots EXCEPT ![slot] = s]
  /\ pc' = "verify"
  /\ UNCHANGED <<save, result>>

\* Mutant: no read-back.
VerifyTrusting == pc = "verify" /\ Return("ok") /\ UNCHANGED slots

Verify ==
  /\ pc = "verify"
  /\ Return(IF rec_valid(slots[slot]) /\ slots[slot].seq = next_seq
            THEN "ok" ELSE "error")
  /\ UNCHANGED slots

-----------------------------------------------------------------------------
(* Faults. *)

\* A sector whose erase was cut short, and one whose slot was being written:
\* before the first byte, after the last or in between.
HalfErased  == {s \in [Slots -> {Free, Dirty, Junk} \cup {slots[i] : i \in Slots}] :
                  \A i \in Slots : s[i] \in {Free, Dirty, Junk, slots[i]}}
HalfWritten == {[slots EXCEPT ![slot] = s] : s \in Programmed \cup {slots[slot]}}

Interrupted == CASE pc = "erase" -> HalfErased
                 [] pc = "write" -> HalfWritten
                 [] OTHER        -> {slots}

\* The flash reports an error, and the save gives up.
FlashFails == /\ pc \in {"erase", "write"}
              /\ slots' \in Interrupted
              /\ Return("error")

\* Power goes; hk_app_init will load what is there.
PowerLoss == /\ pc # "idle"
             /\ slots' \in Interrupted
             /\ Return("none")

Init ==
  /\ slots = [i \in Slots |-> Free]
  /\ pc = "idle" /\ result = "none"
  /\ body = Defaults /\ next_seq = 0 /\ slot = None

Next == \/ \E b \in Bodies : Save(b)
        \/ EraseDone \/ WriteDone \/ Verify
        \/ FlashFails \/ PowerLoss

Spec == Init /\ [][Next]_vars

-----------------------------------------------------------------------------
(* Properties. *)

\* A save that reports HK_OK is the one the next boot loads: seq orders the
\* records over torn writes, failed saves and erases (config.c:38-56, 95-99).
OkIsLoaded == pc = "idle" /\ result = "ok" => hk_config_load = body

\* The journal implements an all-or-nothing store; only a save that finds no
\* free slot can lose a configuration (config.c:101-115).
Store == INSTANCE ConfigStore WITH
           stored <- hk_config_load,
           saving <- IF pc = "idle" THEN NoBody ELSE body,
           full   <- pc = "erase" /\ FirstFree = None

ImplementsStore == Store!Spec
=============================================================================
