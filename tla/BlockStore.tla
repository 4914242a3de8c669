----------------------------- MODULE BlockStore -----------------------------
(* What FatFs takes a disk for: numbered blocks, read and written one at a  *)
(* time.  A call that fails may have happened, now or a little later, or    *)
(* not; a call during which the card is changed promises nothing.           *)
CONSTANTS Block, Data, NoCall, Ok, Error

VARIABLES
  disk,     \* contents of the card in the slot
  loose,    \* writes that failed and may yet take effect: <<block, data>>
  call,     \* NoCall, or [op, lba, data]
  stable,   \* the card has not been changed during the call
  reply     \* what the last call returned: Error, Ok or the data read

store == <<disk, loose, call, stable, reply>>

Begin ==
  /\ call = NoCall
  /\ call' # NoCall /\ stable' = TRUE
  /\ UNCHANGED <<disk, loose, reply>>

\* A write takes effect: the one under way, or one that seemed to fail.
Effect ==
  /\ call # NoCall /\ call.op = "write" /\ stable
  /\ disk' = [disk EXCEPT ![call.lba] = call.data]
  /\ UNCHANGED <<loose, call, stable, reply>>

Settle ==
  /\ \E w \in loose : /\ disk' = [disk EXCEPT ![w[1]] = w[2]]
                      /\ loose' = loose \ {w}
  /\ UNCHANGED <<call, stable, reply>>

Forget == /\ loose' \in SUBSET loose
          /\ UNCHANGED <<disk, call, stable, reply>>

Succeed ==
  /\ call # NoCall /\ call' = NoCall
  /\ reply' # Error
  /\ stable => CASE call.op = "read"  -> reply' = disk[call.lba]
                 [] call.op = "write" -> disk[call.lba] = call.data
                 [] OTHER -> TRUE
  /\ UNCHANGED <<disk, loose, stable>>

Fail ==
  /\ call # NoCall /\ call' = NoCall
  /\ reply' = Error
  /\ \/ UNCHANGED loose
     \/ call.op = "write" /\ loose' = loose \cup {<<call.lba, call.data>>}
  /\ UNCHANGED <<disk, stable>>

Change ==
  /\ disk' \in [Block -> Data] /\ loose' = {} /\ stable' = FALSE
  /\ UNCHANGED <<call, reply>>

Init == /\ disk \in [Block -> Data] /\ loose = {}
        /\ call = NoCall /\ stable = TRUE /\ reply = Ok

Next == Begin \/ Effect \/ Settle \/ Forget \/ Succeed \/ Fail \/ Change

Spec == Init /\ [][Next]_store
=============================================================================
