------------------------------- MODULE SdCard -------------------------------
(***************************************************************************)
(* The SD driver of App/drivers/sd_spi/sd_spi.c under the disk functions   *)
(* of App/services/storage/diskio_sd.c, with a card that is pulled, comes  *)
(* back or is another one, takes its time, and a line that loses a         *)
(* transfer or a bit.  A command with its response is one step, and so is  *)
(* each wait and each block; between two steps the card does as it likes.  *)
(*                                                                         *)
(* The card (SD Physical Layer, SPI mode) is external.  It ignores what it *)
(* is sent while it programs, and holds MISO low, which a driver waiting   *)
(* for R1 reads as 0x00.  CRC of commands and blocks is off in SPI mode    *)
(* until CMD59, which this driver never sends.                             *)
(***************************************************************************)
EXTENDS Integers, Sequences

CONSTANTS
  Block,       \* blocks of a card, 0 .. n - 1
  Lba,         \* those FatFs asks for
  New,         \* data it writes
  Cards,       \* cards that may be put in: [kind, data]
  BlockSize,   \* HK_SD_BLOCK_SIZE: what a byte address is a multiple of
  MaxWait,     \* SD_ACMD41_TIMEOUT_MS, in polls
  MaxCount,    \* blocks of one disk_read or disk_write
  MaxFaults, MaxSwaps,   \* bounds: line faults and slow answers, card changes
  MosiNoise,   \* a bit of a block may change on its way to the card,
  MisoNoise    \* one of R1 on its way to the driver

Kinds  == {"v1", "sc", "hc"}   \* SD 1.x, and 2.x by byte or by block address
Foul   == -1                   \* a block with a wrong bit
Data   == Block \cup New \cup {Foul}
NoCall == [op |-> "none"]
Ok     == -2
Error  == -3

ASSUME SdAssumption ==
  /\ Lba \subseteq Block /\ Block \subseteq Nat /\ New \subseteq Nat
  /\ \A c \in Cards : c.kind \in Kinds /\ c.data \in [Block -> Data]
  /\ {BlockSize, MaxCount, MaxWait} \subseteq Nat \ {0}
  /\ {MaxFaults, MaxSwaps} \subseteq Nat /\ {MosiNoise, MisoNoise} \subseteq BOOLEAN

VARIABLES
  card,      \* [here, kind, mode, warm, at, new]
  mem,       \* what is written on it
  sd,        \* hk_sd_t: [sdhc, v2, ready]
  pc,        \* the step of the driver
  cs, fast,  \* chip select is asserted; the clock is the data clock
  tries,     \* attempts of CMD0, polls of ACMD41
  call, left,    \* the call under way, and those for the blocks after it
  got,       \* data read
  reply, stable, \* its result; the card has not been changed during it
  faults, swaps

driver == <<sd, pc, cs, fast, tries>>
caller == <<call, left, got, reply>>
vars == <<card, mem, driver, caller, stable, faults, swaps>>

-----------------------------------------------------------------------------
(* The card. *)

\* R1: ready, in idle state, illegal command (ready or idle), address error,
\* one bit short of nothing, nothing.
R1 == {0, 1, 4, 5, 32, 127, 255}

\* What R1 is read as when one bit of it changes.
Changed == [r \in R1 |-> CASE r = 0   -> {1, 4, 32}
                           [] r = 1   -> {0, 5}
                           [] r = 4   -> {0, 5}
                           [] r = 5   -> {1, 4}
                           [] r = 32  -> {0}
                           [] OTHER   -> {127}]

\* What it is read as when its byte is lost or changed.
Flip == [r \in R1 |-> {255} \cup (IF MisoNoise THEN Changed[r] ELSE {})]

idle == IF card.mode = "idle" THEN 1 ELSE 0

\* The block a card takes an argument for: those of standard capacity count
\* bytes and refuse what is not a whole block.
Addressed(arg) ==
  IF card.kind = "hc" THEN Block \cap {arg}
  ELSE {b \in Block : b * BlockSize = arg}

\* The card's answer and its state after it.
Exec(cmd, arg) ==
  LET As(r, c) == [r1 |-> r, card |-> c, cost |-> 0]
  IN CASE ~card.here -> As(255, card)
       [] card.here /\ card.mode = "busy" -> As(0, card)
       [] card.here /\ card.mode = "off" ->
            IF cmd = 0 /\ ~fast
            THEN As(1, [card EXCEPT !.mode = "idle", !.warm = FALSE])
            ELSE As(255, card)
       [] card.here /\ card.mode \in {"idle", "tran"} ->
            CASE cmd = 0  -> As(1, [card EXCEPT !.mode = "idle", !.warm = FALSE])
              [] cmd = 8  -> As(IF card.kind = "v1" THEN 4 + idle ELSE idle, card)
              [] cmd \in {55, 58} -> As(idle, card)
              [] cmd = 41 /\ card.mode = "tran" -> As(0, card)
              [] cmd = 41 /\ card.mode = "idle" ->
                   IF card.kind = "hc" /\ ~arg THEN As(1, card)
                   ELSE IF card.warm THEN As(0, [card EXCEPT !.mode = "tran"])
                   ELSE As(1, [card EXCEPT !.warm = TRUE])
              [] cmd \in {16, 17, 24} /\ card.mode = "idle" -> As(5, card)
              [] cmd = 16 /\ card.mode = "tran" -> As(0, card)
              [] cmd \in {17, 24} /\ card.mode = "tran" ->
                   IF Addressed(arg) = {} THEN As(32, card)
                   ELSE As(0, [card EXCEPT
                     !.mode = IF cmd = 17 THEN "sending" ELSE "taking",
                     !.at = CHOOSE b \in Addressed(arg) : TRUE])

\* Chip select going up ends a transfer.
Deselected(c) == IF c.mode \in {"sending", "taking"}
                 THEN [c EXCEPT !.mode = "tran"] ELSE c

\* The card has programmed what it took; its response comes first.
Finish ==
  /\ card.mode = "busy" /\ pc # "response"
  /\ mem' = [mem EXCEPT ![card.at] = card.new]
  /\ card' = [card EXCEPT !.mode = "tran"]
  /\ UNCHANGED <<driver, caller, stable, faults, swaps>>

\* Pulled, or its contacts fail; what it was programming may be lost.
Pull ==
  /\ card.here /\ swaps < MaxSwaps
  /\ card' = [card EXCEPT !.here = FALSE, !.mode = "off"]
  /\ \/ UNCHANGED mem
     \/ card.mode = "busy" /\ mem' = [mem EXCEPT ![card.at] = card.new]
  /\ stable' = FALSE
  /\ UNCHANGED <<driver, caller, faults, swaps>>

Insert ==
  /\ ~card.here
  /\ \E c \in Cards \cup {[kind |-> card.kind, data |-> mem]} :
       /\ card' = [card EXCEPT !.here = TRUE, !.kind = c.kind]
       /\ mem' = c.data
  /\ swaps' = swaps + 1 /\ stable' = FALSE
  /\ UNCHANGED <<driver, caller, faults>>

-----------------------------------------------------------------------------
(* Transfers. *)

Fault == faults < MaxFaults /\ faults' = faults + 1

\* send_cmd: the card's answer; that answer with a bit changed; a frame lost.
send_cmd(cmd, arg) ==
  LET x == Exec(cmd, arg)
  IN {a \in {x} \cup [r1 : Flip[x.r1], card : {x.card}, cost : {1}]
                \cup [r1 : {255}, card : {card}, cost : {1}] :
        faults + a.cost <= MaxFaults}

Goto(p, c) == /\ pc' = p /\ card' = c
              /\ UNCHANGED <<cs, caller>>

\* Mutant: a failed transfer leaves ready set, as the driver once did.
ReturnLeavesReady(r, c) ==
  /\ pc' = "idle" /\ card' = Deselected(c) /\ cs' = FALSE
  /\ reply' = r /\ call' = NoCall
  /\ left' = IF r = Error THEN << >> ELSE left
  /\ UNCHANGED <<sd, got>>

\* deselect, and the result; disk_read and disk_write clear ready on an error
\* and give up the blocks that were to follow.
Return(r, c) ==
  /\ pc' = "idle" /\ card' = Deselected(c) /\ cs' = FALSE
  /\ reply' = r /\ call' = NoCall
  /\ left' = IF r = Error THEN << >> ELSE left
  /\ sd' = IF r = Error /\ call.op \in {"read", "write"}
           THEN [sd EXCEPT !.ready = FALSE] ELSE sd
  /\ UNCHANGED got

\* The answer a takes the driver to step p, or ends the call.
To(p, a)    == faults' = faults + a.cost /\ Goto(p, a.card)
EndBy(r, a) == faults' = faults + a.cost /\ Return(r, a.card)

\* The four bytes after R1 come as they are; the transfer may fail.
read_r3_r7_tail(then) == \/ then /\ UNCHANGED faults
                         \/ Fault /\ Return(Error, card)

\* op_set_speed: the clock is the one asked for; either, if the bus fails.
op_set_speed(f, done, failed) ==
  \/ done /\ fast' = f /\ UNCHANGED faults
  \/ Fault /\ failed /\ fast' \in BOOLEAN

-----------------------------------------------------------------------------
(* hk_sd_init. *)

\* Before chip select: the errors of the slow clock and of the 74 clocks.
EndInit == /\ pc' = "idle" /\ reply' = Error /\ call' = NoCall
           /\ UNCHANGED <<card, cs, left, got>>

\* Mutant: the addressing of the card before is kept.
init_speed_keeps_sdhc ==
  /\ pc = "speed"
  /\ sd' = [sd EXCEPT !.v2 = FALSE, !.ready = FALSE]
  /\ tries' = 0
  /\ op_set_speed(FALSE, Goto("warmup", card), EndInit)
  /\ UNCHANGED <<mem, stable, swaps>>

init_speed ==
  /\ pc = "speed"
  /\ sd' = [sdhc |-> FALSE, v2 |-> FALSE, ready |-> FALSE]
  /\ tries' = 0
  /\ op_set_speed(FALSE, Goto("warmup", card), EndInit)
  /\ UNCHANGED <<mem, stable, swaps>>

init_warmup ==
  /\ pc = "warmup"
  /\ \/ /\ cs' = TRUE /\ pc' = "cmd0"
        /\ UNCHANGED <<card, caller, faults>>
     \/ Fault /\ EndInit
  /\ UNCHANGED <<mem, sd, fast, tries, stable, swaps>>

init_cmd0 ==
  /\ pc = "cmd0"
  /\ \E a \in send_cmd(0, 0) :
       \/ /\ a.r1 = 1
          /\ To("cmd8", a) /\ tries' = 0 /\ UNCHANGED sd
       \/ /\ a.r1 # 1 /\ tries < 3
          /\ To("cmd0", a) /\ tries' = tries + 1 /\ UNCHANGED sd
       \/ /\ a.r1 # 1 /\ tries = 3
          /\ EndBy(Error, a) /\ UNCHANGED tries
  /\ UNCHANGED <<mem, fast, stable, swaps>>

\* No answer reads as an illegal command: the bit is set in 0xFF.
init_cmd8 ==
  /\ pc = "cmd8"
  /\ \E a \in send_cmd(8, 0) :
       To(IF a.r1 \in {4, 5, 127, 255} THEN "cmd55" ELSE "echo", a)
  /\ UNCHANGED <<mem, sd, fast, tries, stable, swaps>>

\* The echo of CMD8, which only a card of version 2 sends.
init_echo ==
  /\ pc = "echo"
  /\ read_r3_r7_tail(
       \/ /\ card.here /\ card.kind # "v1" /\ card.mode # "off"
          /\ sd' = [sd EXCEPT !.v2 = TRUE]
          /\ Goto("cmd55", card)
       \/ /\ ~card.here \/ card.kind = "v1" \/ card.mode \in {"off", "busy"}
          /\ Return(Error, card))
  /\ UNCHANGED <<mem, fast, tries, stable, swaps>>

init_cmd55 ==
  /\ pc = "cmd55"
  /\ \E a \in send_cmd(55, 0) : IF a.r1 = 255 THEN EndBy(Error, a)
                                ELSE To("acmd41", a) /\ UNCHANGED sd
  /\ UNCHANGED <<mem, fast, tries, stable, swaps>>

init_acmd41 ==
  /\ pc = "acmd41"
  /\ \E a \in send_cmd(41, sd.v2) :
       \/ /\ a.r1 = 0
          /\ To(IF sd.v2 THEN "cmd58" ELSE "cmd16", a)
          /\ UNCHANGED <<sd, tries>>
       \/ /\ a.r1 \in {1, 32} /\ tries < MaxWait
          /\ To("cmd55", a) /\ tries' = tries + 1 /\ UNCHANGED sd
       \/ /\ a.r1 \in {4, 5, 127, 255} \/ (a.r1 # 0 /\ tries = MaxWait)
          /\ EndBy(Error, a) /\ UNCHANGED tries
  /\ UNCHANGED <<mem, fast, stable, swaps>>

init_cmd58 ==
  /\ pc = "cmd58"
  /\ \E a \in send_cmd(58, 0) : IF a.r1 # 0 THEN EndBy(Error, a)
                                ELSE To("ocr", a) /\ UNCHANGED sd
  /\ UNCHANGED <<mem, fast, tries, stable, swaps>>

\* CCS of the OCR, set once a card is up.  An empty slot reads all ones.
init_ocr ==
  /\ pc = "ocr"
  /\ read_r3_r7_tail(
       LET ccs == \/ card.mode = "off"
                  \/ card.mode = "tran" /\ card.kind = "hc"
       IN /\ sd' = [sd EXCEPT !.sdhc = ccs]
          /\ Goto(IF ccs THEN "fast" ELSE "cmd16", card))
  /\ UNCHANGED <<mem, fast, tries, stable, swaps>>

init_cmd16 ==
  /\ pc = "cmd16"
  /\ \E a \in send_cmd(16, 0) : IF a.r1 # 0 THEN EndBy(Error, a)
                                ELSE To("fast", a) /\ UNCHANGED sd
  /\ UNCHANGED <<mem, fast, tries, stable, swaps>>

init_fast ==
  /\ pc = "fast"
  /\ pc' = "idle" /\ cs' = FALSE /\ call' = NoCall
  /\ op_set_speed(TRUE, /\ reply' = Ok
                        /\ sd' = [sd EXCEPT !.ready = TRUE],
                  reply' = Error /\ UNCHANGED sd)
  /\ UNCHANGED <<card, mem, tries, left, got, stable, swaps>>

hk_sd_init ==
  \/ init_speed \/ init_warmup \/ init_cmd0 \/ init_cmd8 \/ init_echo
  \/ init_cmd55 \/ init_acmd41 \/ init_cmd58 \/ init_ocr \/ init_cmd16
  \/ init_fast

-----------------------------------------------------------------------------
(* hk_sd_read_block, hk_sd_write_block and hk_sd_wait_ready. *)

\* Mutant: every card is addressed by block.
AlwaysByBlock(lba) == lba

block_addr(lba) == IF sd.sdhc THEN lba ELSE lba * BlockSize

\* wait_not_busy: on to step p or the end of the call; an answer slower than
\* the polls counts as a fault.
wait_not_busy(step, then) ==
  /\ pc = step
  /\ \/ card.mode # "busy" /\ then /\ UNCHANGED faults
     \/ card.mode = "busy" /\ Fault /\ Return(Error, card)
     \/ Fault /\ Return(Error, card)
  /\ UNCHANGED <<mem, fast, tries, stable, swaps>>

read_cmd17 ==
  /\ pc = "cmd17"
  /\ \E a \in send_cmd(17, block_addr(call.lba)) :
       IF a.r1 # 0 THEN EndBy(Error, a) ELSE To("token", a) /\ UNCHANGED sd
  /\ UNCHANGED <<mem, fast, tries, stable, swaps>>

\* Mutant: no deselect when the token does not come.
TokenTimeoutKeepsCs ==
  /\ pc = "token"
  /\ \/ /\ card.mode = "sending"
        /\ Goto("block_in", card) /\ UNCHANGED <<sd, faults>>
     \/ /\ card.mode # "sending"
        /\ pc' = "idle" /\ reply' = Error /\ call' = NoCall /\ left' = << >>
        /\ sd' = [sd EXCEPT !.ready = FALSE]
        /\ UNCHANGED <<card, cs, got, faults>>
     \/ Fault /\ Return(Error, card)
  /\ UNCHANGED <<mem, fast, tries, stable, swaps>>

\* The start token; another byte, none in time, or a failed transfer.
read_token ==
  /\ pc = "token"
  /\ \/ /\ card.mode = "sending"
        /\ Goto("block_in", card) /\ UNCHANGED <<sd, faults>>
     \/ /\ card.mode # "sending"
        /\ Return(Error, card) /\ UNCHANGED faults
     \/ Fault /\ Return(Error, card)
  /\ UNCHANGED <<mem, fast, tries, stable, swaps>>

\* The block with its CRC: a wrong bit, or a card that is gone, is told.
read_data ==
  /\ pc = "block_in"
  /\ \/ /\ card.mode = "sending"
        /\ got' = mem[card.at] /\ pc' = "crc"
        /\ UNCHANGED <<card, cs, call, left, reply, sd, faults>>
     \/ /\ card.mode # "sending"
        /\ Return(Error, card) /\ UNCHANGED faults
     \/ Fault /\ Return(Error, card)
  /\ UNCHANGED <<mem, fast, tries, stable, swaps>>

read_crc ==
  /\ pc = "crc" /\ Return(got, card)
  /\ UNCHANGED <<mem, fast, tries, stable, faults, swaps>>

write_wait == wait_not_busy("wait", Goto("cmd24", card) /\ UNCHANGED sd)

write_cmd24 ==
  /\ pc = "cmd24"
  /\ \E a \in send_cmd(24, block_addr(call.lba)) :
       IF a.r1 # 0 THEN EndBy(Error, a) ELSE To("block_out", a) /\ UNCHANGED sd
  /\ UNCHANGED <<mem, fast, tries, stable, swaps>>

\* Start token, block and CRC, which the card does not look at.
Taken == {[card EXCEPT !.mode = "busy", !.new = d] :
            d \in {call.data} \cup (IF MosiNoise THEN {Foul} ELSE {})}

write_data ==
  /\ pc = "block_out"
  /\ \/ /\ card.mode = "taking"
        /\ \E c \in Taken : Goto("response", c)
        /\ UNCHANGED <<sd, faults>>
     \/ /\ card.mode # "taking"
        /\ Goto("response", card) /\ UNCHANGED <<sd, faults>>
     \/ /\ Fault
        /\ \E c \in {card} \cup (IF card.mode = "taking" THEN Taken ELSE {}) :
             Return(Error, c)
  /\ UNCHANGED <<mem, fast, tries, stable, swaps>>

\* Accepted, or not: the card refuses for reasons of its own, or is gone.
write_response ==
  /\ pc = "response"
  /\ \/ /\ card.mode = "busy"
        /\ Goto("program", card) /\ UNCHANGED <<sd, faults>>
     \/ /\ card.mode # "busy"
        /\ Return(Error, card) /\ UNCHANGED faults
     \/ Fault /\ Return(Error, card)
  /\ UNCHANGED <<mem, fast, tries, stable, swaps>>

write_program == wait_not_busy("program", Return(Ok, card))

hk_sd_wait_ready == wait_not_busy("flush", Return(Ok, card))

-----------------------------------------------------------------------------
(* diskio_sd.c: disk_initialize for a card that is not ready, and calls on one *)
(* that is; disk_read and disk_write go on with the next block.                *)

Step == [init |-> "speed", read |-> "cmd17", write |-> "wait", sync |-> "flush"]

Start(calls) ==
  /\ pc = "idle"
  /\ call' = Head(calls) /\ left' = Tail(calls)
  /\ pc' = Step[call'.op] /\ cs' = (call'.op # "init")
  /\ stable' = TRUE
  /\ UNCHANGED <<card, mem, sd, fast, tries, got, reply, faults, swaps>>

disk_initialize == ~sd.ready /\ left = << >> /\ Start(<<[op |-> "init"]>>)

disk_read ==
  /\ sd.ready /\ left = << >>
  /\ \E b \in Lba, n \in 1 .. MaxCount :
       /\ b + n - 1 \in Lba
       /\ Start([i \in 1 .. n |-> [op |-> "read", lba |-> b + i - 1]])

disk_write ==
  /\ sd.ready /\ left = << >>
  /\ \E b \in Lba, n \in 1 .. MaxCount, d \in New :
       /\ b + n - 1 \in Lba
       /\ Start([i \in 1 .. n |-> [op |-> "write", lba |-> b + i - 1, data |-> d]])

disk_ioctl == sd.ready /\ left = << >> /\ Start(<<[op |-> "sync"]>>)

NextBlock == left # << >> /\ Start(left)

-----------------------------------------------------------------------------
Init ==
  /\ \E c \in Cards :
       /\ card = [here |-> TRUE, kind |-> c.kind, mode |-> "off",
                  warm |-> FALSE, at |-> 0, new |-> Foul]
       /\ mem = c.data
  /\ sd = [sdhc |-> FALSE, v2 |-> FALSE, ready |-> FALSE]
  /\ pc = "idle" /\ cs = FALSE /\ fast = FALSE /\ tries = 0
  /\ call = NoCall /\ left = << >> /\ got = Foul /\ reply = Ok
  /\ stable = TRUE /\ faults = 0 /\ swaps = 0

Medium == Finish \/ Pull \/ Insert

Driver ==
  \/ hk_sd_init
  \/ read_cmd17 \/ read_token \/ read_data \/ read_crc
  \/ write_wait \/ write_cmd24 \/ write_data \/ write_response \/ write_program
  \/ hk_sd_wait_ready

Caller == disk_initialize \/ disk_read \/ disk_write \/ disk_ioctl \/ NextBlock

Next == Medium \/ Driver \/ Caller

Spec == Init /\ [][Next]_vars

\* The storage task tries again, its calls go on, and a card ends what it
\* programs.
FairSpec == Spec /\ WF_vars(Driver) /\ WF_vars(Caller) /\ WF_vars(Finish)

-----------------------------------------------------------------------------
(* Properties. *)

\* What a write that has failed may still do: the card is programming it.
loose == IF card.mode = "busy" /\ pc \notin {"response", "program"}
         THEN {<<card.at, card.new>>} ELSE {}

Store == INSTANCE BlockStore WITH disk <- mem

\* A block read is the block asked for as it stands on the card, a write that
\* is reported done is on the card in its place, and no call touches another
\* block; whatever is lost, changed or late on the line, and whichever card was
\* in the slot before (sd_spi.c:234-344, sd_spi.h:20).
ImplementsBlockStore == Store!Spec

\* Between calls, a driver that takes the card for ready addresses it the way it
\* wants and at the data clock, unless the card has lost its state since.
ReadyMatches ==
  call = NoCall /\ sd.ready /\ card.here /\ card.mode # "off" =>
    /\ fast /\ card.mode \in {"tran", "busy"}
    /\ sd.sdhc <=> card.kind = "hc"

\* Every way out of a call releases the chip select.
BusReleased == call = NoCall => ~cs

\* Once a card stays in the slot and the line is sound, no call fails for ever:
\* the driver finds the card again by itself (diskio_sd.c:29-35).
Sound    == card.here /\ faults = MaxFaults /\ swaps = MaxSwaps
ComesBack == Sound ~> [](reply # Error)
=============================================================================
