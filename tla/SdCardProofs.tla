---------------------------- MODULE SdCardProofs ----------------------------
(***************************************************************************)
(* Proofs about SdCard for every set of cards, blocks and bounds.          *)
(*                                                                         *)
(* BusHolds: whatever fails, in whichever step of whichever call, the chip *)
(* select is released when the call is over.  BusReleased alone is not     *)
(* inductive: hk_sd_init returns from its first two steps without          *)
(* deselect, because it has not asserted it yet.                           *)
(*                                                                         *)
(* ReadyHolds and SdServesFat: however many transfers are lost, fail or    *)
(* come late, or with a bit of R1 changed as the only fault, and however   *)
(* often the card is exchanged, the driver knows the card it calls ready,  *)
(* and if no block changes on its way to the card the two are a            *)
(* BlockStore. SdInv says how far hk_sd_init has come with the card, that  *)
(* a card that keeps its state through it is the one that is ready, and    *)
(* whose block is on its way at which step; WornInv, that only a fault     *)
(* leaves a card programming; WrittenInv, that what it programs is what    *)
(* was to be written.                                                      *)
(***************************************************************************)
EXTENDS SdCard, SequenceTheorems, TLAPS

Call == [op : {"init", "sync"}] \cup [op : {"read"}, lba : Int]
          \cup [op : {"write"}, lba : Int, data : New]

BusInv ==
  /\ left \in Seq(Call)
  /\ call = NoCall => pc = "idle" /\ cs = FALSE
  /\ pc \in {"speed", "warmup"} => cs = FALSE

LEMMA NoneLeft == << >> \in Seq(Call)
  OBVIOUS

LEMMA Listed ==
  ASSUME NEW S, NEW n \in Nat \ {0}, NEW f \in [1 .. n -> S]
  PROVE  f \in Seq(S) /\ f # << >>
<1>1. f \in Seq(S) /\ Len(f) = n
  OBVIOUS
<1> QED
  BY <1>1

LEMMA BusInit == Init => BusInv
  BY NoneLeft DEF Init, BusInv

LEMMA CallNotNone ==
  ASSUME NEW c \in Call
  PROVE  c # NoCall /\ c.op \in {"init", "read", "write", "sync"}
  BY DEF Call, NoCall

\* The three ways on: to the next step, out of the call, out of hk_sd_init
\* before chip select.
LEMMA GotoKeeps ==
  ASSUME BusInv, pc # "idle", NEW p, NEW c, Goto(p, c),
         p = "speed" => FALSE, p = "warmup" => pc = "speed", p # "idle"
  PROVE  BusInv'
  BY DEF BusInv, Goto, caller

LEMMA ReturnKeeps ==
  ASSUME BusInv, NEW r, NEW c, Return(r, c)
  PROVE  BusInv'
  BY NoneLeft DEF BusInv, Return

LEMMA EndInitKeeps ==
  ASSUME BusInv, pc \in {"speed", "warmup"}, EndInit
  PROVE  BusInv'
  BY DEF BusInv, EndInit

LEMMA StartKeeps ==
  ASSUME BusInv, NEW calls \in Seq(Call), calls # << >>, Start(calls)
  PROVE  BusInv'
<1>1. Head(calls) \in Call /\ Tail(calls) \in Seq(Call)
  OBVIOUS
<1>2. call' # NoCall /\ call'.op \in {"init", "read", "write", "sync"}
  BY <1>1, CallNotNone DEF Start
<1>3. pc' \in {"speed", "warmup"} => call'.op = "init"
  BY <1>2 DEF Start, Step
<1> QED
  BY <1>1, <1>2, <1>3 DEF Start, BusInv

LEMMA InitKeeps == BusInv /\ hk_sd_init => BusInv'
<1> SUFFICES ASSUME BusInv, hk_sd_init PROVE BusInv'
  OBVIOUS
<1> USE DEF To, EndBy
<1>1. CASE init_speed
  BY <1>1, GotoKeeps, EndInitKeeps DEF init_speed, op_set_speed
<1>2. CASE init_warmup
  BY <1>2, EndInitKeeps DEF init_warmup, BusInv, caller
<1>3. CASE init_cmd0
  BY <1>3, GotoKeeps, ReturnKeeps DEF init_cmd0
<1>4. CASE init_cmd8
  BY <1>4, GotoKeeps DEF init_cmd8
<1>5. CASE init_echo
  BY <1>5, GotoKeeps, ReturnKeeps DEF init_echo, read_r3_r7_tail
<1>6. CASE init_cmd55
  BY <1>6, GotoKeeps, ReturnKeeps DEF init_cmd55
<1>7. CASE init_acmd41
  BY <1>7, GotoKeeps, ReturnKeeps DEF init_acmd41
<1>8. CASE init_cmd58
  BY <1>8, GotoKeeps, ReturnKeeps DEF init_cmd58
<1>9. CASE init_ocr
  BY <1>9, GotoKeeps, ReturnKeeps DEF init_ocr, read_r3_r7_tail
<1>10. CASE init_cmd16
  BY <1>10, GotoKeeps, ReturnKeeps DEF init_cmd16
<1>11. CASE init_fast
  BY <1>11 DEF init_fast, BusInv
<1> QED
  BY <1>1, <1>2, <1>3, <1>4, <1>5, <1>6, <1>7, <1>8, <1>9, <1>10, <1>11
     DEF hk_sd_init

LEMMA TransferKeeps ==
  ASSUME BusInv,
         \/ read_cmd17 \/ read_token \/ read_data \/ read_crc
         \/ write_wait \/ write_cmd24 \/ write_data \/ write_response
         \/ write_program \/ hk_sd_wait_ready
  PROVE  BusInv'
<1> USE DEF To, EndBy
<1>1. CASE read_cmd17
  BY <1>1, GotoKeeps, ReturnKeeps DEF read_cmd17
<1>2. CASE read_token
  BY <1>2, GotoKeeps, ReturnKeeps DEF read_token
<1>3. CASE read_data
  <2>1. CASE got' = mem[card.at] /\ pc' = "crc"
             /\ UNCHANGED <<card, cs, call, left, reply, sd, faults>>
    BY <1>3, <2>1 DEF read_data, BusInv
  <2> QED
    BY <1>3, <2>1, ReturnKeeps DEF read_data
<1>4. CASE read_crc
  BY <1>4, ReturnKeeps DEF read_crc
<1>5. CASE write_wait
  BY <1>5, GotoKeeps, ReturnKeeps DEF write_wait, wait_not_busy
<1>6. CASE write_cmd24
  BY <1>6, GotoKeeps, ReturnKeeps DEF write_cmd24
<1>7. CASE write_data
  BY <1>7, GotoKeeps, ReturnKeeps DEF write_data
<1>8. CASE write_response
  BY <1>8, GotoKeeps, ReturnKeeps DEF write_response
<1>9. CASE write_program
  BY <1>9, ReturnKeeps DEF write_program, wait_not_busy
<1>10. CASE hk_sd_wait_ready
  BY <1>10, ReturnKeeps DEF hk_sd_wait_ready, wait_not_busy
<1> QED
  BY <1>1, <1>2, <1>3, <1>4, <1>5, <1>6, <1>7, <1>8, <1>9, <1>10

LEMMA CallerKeeps == BusInv /\ Caller => BusInv'
<1> SUFFICES ASSUME BusInv, Caller PROVE BusInv'
  OBVIOUS
<1>1. CASE disk_initialize
  <2>1. <<[op |-> "init"]>> \in Seq(Call) /\ <<[op |-> "init"]>> # << >>
    BY DEF Call
  <2> QED
    BY <1>1, <2>1, StartKeeps DEF disk_initialize
<1>2. CASE disk_read
  <2>1. PICK b \in Lba, n \in 1 .. MaxCount :
          Start([i \in 1 .. n |-> [op |-> "read", lba |-> b + i - 1]])
    BY <1>2 DEF disk_read
  <2> DEFINE calls == [i \in 1 .. n |-> [op |-> "read", lba |-> b + i - 1]]
  <2>2. b \in Int /\ n \in Nat \ {0}
    BY SdAssumption
  <2>3. \A i \in 1 .. n : [op |-> "read", lba |-> b + i - 1] \in Call
    BY <2>2 DEF Call
  <2>4. calls \in [1 .. n -> Call]
    BY <2>3
  <2>5. calls \in Seq(Call) /\ calls # << >>
    BY <2>2, <2>4, Listed
  <2> QED
    BY <2>1, <2>5, StartKeeps
<1>3. CASE disk_write
  <2>1. PICK b \in Lba, n \in 1 .. MaxCount, d \in New :
          Start([i \in 1 .. n |->
                   [op |-> "write", lba |-> b + i - 1, data |-> d]])
    BY <1>3 DEF disk_write
  <2> DEFINE calls == [i \in 1 .. n |->
                         [op |-> "write", lba |-> b + i - 1, data |-> d]]
  <2>2. b \in Int /\ n \in Nat \ {0}
    BY SdAssumption
  <2>3. \A i \in 1 .. n :
          [op |-> "write", lba |-> b + i - 1, data |-> d] \in Call
    BY <2>2 DEF Call
  <2>4. calls \in [1 .. n -> Call]
    BY <2>3
  <2>5. calls \in Seq(Call) /\ calls # << >>
    BY <2>2, <2>4, Listed
  <2> QED
    BY <2>1, <2>5, StartKeeps
<1>4. CASE disk_ioctl
  <2>1. <<[op |-> "sync"]>> \in Seq(Call) /\ <<[op |-> "sync"]>> # << >>
    BY DEF Call
  <2> QED
    BY <1>4, <2>1, StartKeeps DEF disk_ioctl
<1>5. CASE NextBlock
  BY <1>5, StartKeeps DEF NextBlock, BusInv
<1> QED
  BY <1>1, <1>2, <1>3, <1>4, <1>5 DEF Caller

LEMMA BusNext == BusInv /\ [Next]_vars => BusInv'
<1>1. ASSUME BusInv, Medium PROVE BusInv'
  BY <1>1 DEF BusInv, Medium, Finish, Pull, Insert, driver, caller
<1>2. ASSUME BusInv, UNCHANGED vars PROVE BusInv'
  BY <1>2 DEF BusInv, vars, driver, caller
<1> QED
  BY <1>1, <1>2, InitKeeps, TransferKeeps, CallerKeeps DEF Next, Driver

\* Every way out of a call releases the chip select (sd_spi.c:86-92 and each
\* return of its functions).
THEOREM BusHolds == Spec => []BusReleased
<1>1. BusInv => BusReleased
  BY DEF BusInv, BusReleased
<1> QED
  BY BusInit, BusNext, <1>1, PTL DEF Spec

-----------------------------------------------------------------------------
(* The card and the driver's idea of it. *)

InitSteps  == {"speed", "warmup", "cmd0", "cmd8", "echo", "cmd55", "acmd41",
               "cmd58", "ocr", "cmd16", "fast"}
ReadSteps  == {"cmd17", "token", "block_in", "crc"}
WriteSteps == {"wait", "cmd24", "block_out", "response", "program"}

Reads  == [op : {"read"}, lba : Int]
Writes == [op : {"write"}, lba : Int, data : New]

CardState ==
  [here : BOOLEAN, kind : Kinds, warm : BOOLEAN, at : Nat, new : Data,
   mode : {"off", "idle", "tran", "sending", "taking", "busy"}]

Sane(c) ==
  /\ c \in CardState
  /\ c.mode \in {"sending", "taking", "busy"} => c.at \in Block
  /\ ~c.here => c.mode = "off"

CardTypes ==
  /\ Sane(card)
  /\ mem \in [Block -> Data] /\ got \in Data
  /\ sd \in [sdhc : BOOLEAN, v2 : BOOLEAN, ready : BOOLEAN]

CallInv ==
  /\ left \in Seq(Reads \cup Writes) /\ (left # << >> => sd.ready)
  /\ \/ pc = "idle" /\ call = NoCall
     \/ pc \in InitSteps /\ call = [op |-> "init"] /\ ~sd.ready
     \/ pc \in ReadSteps /\ call \in Reads /\ sd.ready
     \/ pc \in WriteSteps /\ call \in Writes /\ sd.ready
     \/ pc = "flush" /\ call = [op |-> "sync"] /\ sd.ready

\* A card that has not lost its state since is the one that was initialised.
Fits(c) == sd.ready /\ c.mode # "off" =>
             c.mode # "idle" /\ (sd.sdhc <=> c.kind = "hc")

MatchInv ==
  /\ sd.ready => fast
  /\ Fits(card)
  /\ card.mode = "sending" => pc \in {"token", "block_in", "crc"}
  /\ card.mode = "taking" => pc = "block_out"

\* Where bits change there is one fault at most, and it may be behind us.
Clear == ~MisoNoise \/ MaxFaults <= 1
Worn  == MisoNoise /\ faults > 0

\* A card is left programming by a fault only.
WornInv ==
  /\ faults \in Nat
  /\ MisoNoise /\ card.mode = "busy" /\ pc \notin {"response", "program"} => Worn

\* How far hk_sd_init has come with it.
InitialInv ==
  /\ pc \in {"cmd8", "echo"} => card.mode \in {"idle", "off"}
  /\ pc \in {"cmd55", "acmd41"} =>
       \/ card.mode \in {"idle", "off"}
       \/ Worn /\ card.mode = "tran" /\ (card.kind = "hc" => sd.v2)
  /\ pc \in {"cmd58", "cmd16"} =>
       card.mode \in {"tran", "off"} \/ (Worn /\ card.mode = "idle")
  /\ pc \in {"ocr", "fast"} => card.mode \in {"tran", "off"}
  /\ pc \in InitSteps \ {"speed", "fast"} => ~sd.sdhc
  /\ pc = "cmd16" /\ card.mode = "tran" => card.kind # "hc"
  /\ pc = "fast" /\ card.mode = "tran" => (sd.sdhc <=> card.kind = "hc")

\* Where a block is on its way.
TransferInv ==
  /\ pc \in ReadSteps \cup WriteSteps \cup {"flush"} /\ ~stable => card.mode = "off"
  /\ pc \in {"block_in", "crc", "block_out", "response", "program"} /\ stable =>
       card.mode # "off"
  /\ pc \in {"block_in", "crc"} => card.mode \in {"sending", "off"}
  /\ pc = "cmd24" => card.mode # "busy"
  /\ pc = "block_out" =>
       card.mode \in {"taking", "off"} \/ (Worn /\ card.mode = "tran")
  /\ pc = "response" =>
       card.mode \in {"busy", "off"} \/ (Worn /\ card.mode = "tran")
  /\ pc = "program" => card.mode \in {"busy", "tran", "off"}
  /\ card.mode \in {"sending", "taking"} => card.at = call.lba
  /\ card.mode = "busy" /\ pc \in {"response", "program"} => card.at = call.lba
  /\ pc = "crc" /\ card.mode = "sending" => got = mem[call.lba]

\* What is written is what was to be.
WrittenInv ==
  /\ pc \in {"response", "program"} /\ card.mode = "busy" => card.new = call.data
  /\ pc = "program" /\ card.mode = "tran" => mem[call.lba] = call.data

SdInv == CardTypes /\ CallInv /\ MatchInv /\ InitialInv /\ TransferInv
-----------------------------------------------------------------------------
(* Answers. *)

Commands == {0, 8, 16, 17, 24, 41, 55, 58}

LEMMA Found ==
  ASSUME NEW arg, Addressed(arg) # {}
  PROVE  (CHOOSE b \in Addressed(arg) : TRUE) \in Addressed(arg)
  OBVIOUS

LEMMA Modes ==
  ASSUME CardTypes, card.mode \notin {"sending", "taking"}
  PROVE  /\ card.mode \in {"off", "idle", "tran", "busy"}
         /\ card.here \/ card.mode = "off"
  BY DEF CardTypes, Sane, CardState

Reply(r, c) == [r1 |-> r, card |-> c, cost |-> 0]

Reset(c) == [c EXCEPT !.mode = "idle", !.warm = FALSE]

\* Exec, command by command.
LEMMA ExecDeaf ==
  ASSUME NEW cmd \in Commands, NEW arg
  PROVE  /\ ~card.here => Exec(cmd, arg) = Reply(255, card)
         /\ card.here /\ card.mode = "busy" => Exec(cmd, arg) = Reply(0, card)
         /\ card.here /\ card.mode = "off" =>
              Exec(cmd, arg) = IF cmd = 0 /\ ~fast THEN Reply(1, Reset(card))
                               ELSE Reply(255, card)
<1>1. CASE ~card.here
  BY <1>1 DEF Exec, Reply
<1>2. CASE card.here /\ card.mode = "busy"
  BY <1>2 DEF Exec, Reply
<1>3. CASE card.here /\ card.mode = "off"
  BY <1>3 DEF Exec, Reply, Reset
<1> QED BY <1>1, <1>2, <1>3

LEMMA ExecPlain ==
  ASSUME card.here, card.mode \in {"idle", "tran"}, NEW arg
  PROVE  /\ Exec(0, arg) = Reply(1, Reset(card))
         /\ Exec(8, arg) = Reply(IF card.kind = "v1" THEN 4 + idle ELSE idle, card)
         /\ Exec(55, arg) = Reply(idle, card) /\ Exec(58, arg) = Reply(idle, card)
         /\ Exec(16, arg) = Reply(IF card.mode = "idle" THEN 5 ELSE 0, card)
<1>1. Exec(0, arg) = Reply(1, Reset(card))
  BY DEF Exec, Reply, Reset
<1>2. Exec(8, arg) = Reply(IF card.kind = "v1" THEN 4 + idle ELSE idle, card)
  BY DEF Exec, Reply
<1>3. Exec(55, arg) = Reply(idle, card)
  BY DEF Exec, Reply
<1>4. Exec(58, arg) = Reply(idle, card)
  BY DEF Exec, Reply
<1>5. Exec(16, arg) = Reply(IF card.mode = "idle" THEN 5 ELSE 0, card)
  BY DEF Exec, Reply
<1> QED BY <1>1, <1>2, <1>3, <1>4, <1>5

LEMMA ExecStart ==
  ASSUME card.here, card.mode \in {"idle", "tran"}, NEW arg
  PROVE  Exec(41, arg) =
           IF card.mode = "tran" THEN Reply(0, card)
           ELSE IF card.kind = "hc" /\ ~arg THEN Reply(1, card)
           ELSE IF card.warm THEN Reply(0, [card EXCEPT !.mode = "tran"])
           ELSE Reply(1, [card EXCEPT !.warm = TRUE])
  BY DEF Exec, Reply

LEMMA ExecBlock ==
  ASSUME card.here, card.mode \in {"idle", "tran"}, NEW arg,
         NEW cmd \in {17, 24}
  PROVE  Exec(cmd, arg) =
           IF card.mode = "idle" THEN Reply(5, card)
           ELSE IF Addressed(arg) = {} THEN Reply(32, card)
           ELSE Reply(0, [card EXCEPT
                            !.mode = IF cmd = 17 THEN "sending" ELSE "taking",
                            !.at = CHOOSE b \in Addressed(arg) : TRUE])
  BY DEF Exec, Reply

\* What the card does with a command, whether or not its answer is heard.
LEMMA Executes ==
  ASSUME CardTypes, card.mode \notin {"sending", "taking"},
         NEW cmd \in Commands, NEW arg
  PROVE  \E r \in R1, c \in CardState :
           /\ Exec(cmd, arg) = Reply(r, c) /\ Sane(c)
           /\ c.kind = card.kind /\ c.new = card.new
           /\ card.mode = "busy" => c = card
           /\ c.mode = "busy" => card.mode = "busy"
           /\ card.mode = "off" /\ cmd # 0 => c = card /\ r = 255
<1> DEFINE Is(r, c) == /\ Exec(cmd, arg) = Reply(r, c) /\ Sane(c)
                       /\ c.kind = card.kind /\ c.new = card.new
                       /\ card.mode = "busy" => c = card
                       /\ c.mode = "busy" => card.mode = "busy"
                       /\ card.mode = "off" /\ cmd # 0 => c = card /\ r = 255
<1>1. /\ card.mode \in {"off", "idle", "tran", "busy"}
      /\ card.here \/ card.mode = "off"
      /\ card \in CardState /\ Sane(card)
  BY Modes DEF CardTypes, Sane
<1>2. SUFFICES \E r \in R1, c \in CardState : Is(r, c)
  OBVIOUS
<1>3. idle \in {0, 1} /\ {0, 1, 4, 5, 32, 255} \subseteq R1
  BY DEF idle, R1
<1>4. Reset(card) \in CardState /\ (card.here => Sane(Reset(card)))
      /\ Reset(card).kind = card.kind /\ Reset(card).new = card.new
      /\ Reset(card).mode = "idle"
  BY <1>1 DEF Reset, Sane, CardState
<1>5. CASE ~card.here \/ card.mode = "busy"
  <2>1. Is(255, card) \/ Is(0, card)
    BY <1>1, <1>5, ExecDeaf
  <2> HIDE DEF Is
  <2> QED BY <1>1, <1>3, <2>1
<1>6. CASE card.here /\ card.mode = "off"
  <2>1. Is(1, Reset(card)) \/ Is(255, card)
    BY <1>1, <1>4, <1>6, ExecDeaf
  <2> HIDE DEF Is
  <2> QED BY <1>1, <1>3, <1>4, <2>1
<1>7. CASE card.here /\ card.mode \in {"idle", "tran"}
  <2>1. CASE cmd = 0
    <3>1. Is(1, Reset(card))
      BY <1>1, <1>4, <1>7, <2>1, ExecPlain
    <3> HIDE DEF Is
    <3> QED BY <1>3, <1>4, <3>1
  <2>2. CASE cmd \in {8, 16, 55, 58}
    <3>1. \E r \in R1 : Exec(cmd, arg) = Reply(r, card)
      <4>1. idle \in R1 /\ 4 + idle \in R1 /\ 5 \in R1 /\ 0 \in R1
        BY <1>3
      <4> QED BY <1>7, <2>2, <4>1, ExecPlain
    <3>2. \E r \in R1 : Is(r, card)
      BY <1>1, <1>7, <3>1
    <3> HIDE DEF Is
    <3> QED BY <1>1, <3>2
  <2>3. CASE cmd = 41
    <3> DEFINE up == [card EXCEPT !.mode = "tran"]
               warm == [card EXCEPT !.warm = TRUE]
    <3>1. /\ up \in CardState /\ Sane(up) /\ up.kind = card.kind /\ up.new = card.new
          /\ up.mode = "tran"
          /\ warm \in CardState /\ Sane(warm) /\ warm.kind = card.kind
          /\ warm.new = card.new /\ warm.mode = card.mode
      BY <1>1, <1>7 DEF CardState, Sane
    <3>2. \/ Exec(cmd, arg) = Reply(0, card) \/ Exec(cmd, arg) = Reply(1, card)
          \/ Exec(cmd, arg) = Reply(0, up) \/ Exec(cmd, arg) = Reply(1, warm)
      BY <1>7, <2>3, ExecStart
    <3> HIDE DEF up, warm
    <3>3. Is(0, card) \/ Is(1, card) \/ Is(0, up) \/ Is(1, warm)
      BY <1>1, <1>7, <3>1, <3>2
    <3> HIDE DEF Is
    <3> QED BY <1>1, <1>3, <3>1, <3>3
  <2>4. CASE cmd \in {17, 24}
    <3> DEFINE b == CHOOSE b \in Addressed(arg) : TRUE
               m == IF cmd = 17 THEN "sending" ELSE "taking"
               moved == [card EXCEPT !.mode = m, !.at = b]
    <3>1. Addressed(arg) # {} => b \in Block /\ b \in Nat
      BY Found, SdAssumption DEF Addressed
    <3>2. \/ Exec(cmd, arg) = Reply(5, card) \/ Exec(cmd, arg) = Reply(32, card)
          \/ Addressed(arg) # {} /\ Exec(cmd, arg) = Reply(0, moved)
      BY <1>7, <2>4, ExecBlock
    <3> HIDE DEF b
    <3>3. Addressed(arg) # {} =>
            /\ moved \in CardState /\ Sane(moved) /\ moved.kind = card.kind
            /\ moved.new = card.new /\ moved.mode \in {"sending", "taking"}
      BY <1>1, <1>7, <2>4, <3>1 DEF CardState, Sane
    <3> HIDE DEF moved
    <3>4. Is(5, card) \/ Is(32, card) \/ (Addressed(arg) # {} /\ Is(0, moved))
      BY <1>1, <1>7, <3>2, <3>3
    <3> HIDE DEF Is
    <3> QED BY <1>1, <1>3, <3>3, <3>4
  <2> QED BY <2>1, <2>2, <2>3, <2>4 DEF Commands
<1> QED BY <1>1, <1>5, <1>6, <1>7

LEMMA Replies ==
  ASSUME CardTypes, card.mode \notin {"sending", "taking"},
         NEW cmd \in Commands, NEW arg, NEW a \in send_cmd(cmd, arg)
  PROVE  /\ Sane(a.card) /\ a.card.kind = card.kind /\ a.card.new = card.new
         /\ card.mode = "busy" => a.card = card
         /\ a.card.mode = "busy" => card.mode = "busy"
         /\ card.mode = "off" /\ cmd # 0 => a.card = card
         /\ a.card \in {card, Exec(cmd, arg).card}
<1>1. a.card \in {card, Exec(cmd, arg).card}
  BY DEF send_cmd
<1>2. Sane(card)
  BY DEF CardTypes
<1>3. CASE a.card = Exec(cmd, arg).card
  <2>1. PICK r \in R1, c \in CardState :
           /\ Exec(cmd, arg) = Reply(r, c) /\ Sane(c)
           /\ c.kind = card.kind /\ c.new = card.new
           /\ card.mode = "busy" => c = card
           /\ c.mode = "busy" => card.mode = "busy"
           /\ card.mode = "off" /\ cmd # 0 => c = card /\ r = 255
    BY Executes
  <2>2. a.card = c
    BY <1>3, <2>1 DEF Reply
  <2> QED BY <1>1, <2>1, <2>2
<1> QED BY <1>1, <1>2, <1>3

\* An answer that is heard is the card's, or the one fault has changed it.
LEMMA Heard ==
  ASSUME Clear, CardTypes, faults \in Nat, card.mode \notin {"sending", "taking"},
         NEW cmd \in Commands, NEW arg, NEW a \in send_cmd(cmd, arg), a.r1 # 255
  PROVE  /\ a.card = Exec(cmd, arg).card /\ Exec(cmd, arg).r1 \in R1
         /\ \/ a.r1 = Exec(cmd, arg).r1
            \/ /\ MisoNoise /\ ~Worn /\ a.cost = 1
               /\ a.r1 \in Changed[Exec(cmd, arg).r1]
<1> DEFINE x == Exec(cmd, arg)
<1>1. x.r1 \in R1 /\ x.cost = 0
  BY Executes DEF Reply
<1>2. Flip[x.r1] = {255} \cup (IF MisoNoise THEN Changed[x.r1] ELSE {})
  BY <1>1 DEF Flip
<1> HIDE DEF x
<1>3. /\ a \in {x} \cup [r1 : Flip[x.r1], card : {x.card}, cost : {1}]
              \cup [r1 : {255}, card : {card}, cost : {1}]
      /\ faults + a.cost <= MaxFaults
  BY DEF send_cmd, x
<1>4. CASE a = x
  BY <1>1, <1>4 DEF x
<1>5. CASE a \in [r1 : Flip[x.r1], card : {x.card}, cost : {1}]
  <2>1. MisoNoise /\ a.r1 \in Changed[x.r1] /\ a.card = x.card /\ a.cost = 1
    BY <1>2, <1>5
  <2>2. ~Worn
    BY <1>3, <2>1, SdAssumption DEF Clear, Worn
  <2> QED BY <1>1, <2>1, <2>2 DEF x
<1> QED BY <1>3, <1>4, <1>5

LEMMA Costs ==
  ASSUME CardTypes, card.mode \notin {"sending", "taking"},
         NEW cmd \in Commands, NEW arg, NEW a \in send_cmd(cmd, arg)
  PROVE  a.cost \in {0, 1}
  BY Executes DEF send_cmd, Reply

\* What R1 may be taken for.
LEMMA Changes ==
  /\ \A r \in R1 : 1 \in Changed[r] => r \in {0, 5}
  /\ \A r \in R1 : 0 \in Changed[r] => r \in {1, 4, 32}
  /\ Changed[0] = {1, 4, 32} /\ Changed[1] = {0, 5} /\ Changed[255] = {127}
  BY DEF Changed, R1
-----------------------------------------------------------------------------
(* The steps. *)

LEMMA SdInit == Init => SdInv /\ WornInv /\ WrittenInv
<1> SUFFICES ASSUME Init PROVE SdInv /\ WornInv /\ WrittenInv
  OBVIOUS
<1>1. CardTypes
  BY SdAssumption DEF Init, CardTypes, Sane, CardState, Data, Foul
<1>2. CallInv
  <2>1. << >> \in Seq(Reads \cup Writes)
    OBVIOUS
  <2> QED BY <2>1 DEF Init, CallInv
<1>3. MatchInv /\ InitialInv /\ TransferInv /\ WornInv /\ WrittenInv
  BY DEF Init, MatchInv, Fits, InitialInv, TransferInv, WornInv, WrittenInv,
         InitSteps, ReadSteps, WriteSteps
<1> QED BY <1>1, <1>2, <1>3 DEF SdInv

\* A transfer ends when chip select goes up.
LEMMA Ended ==
  ASSUME NEW c, Sane(c)
  PROVE  /\ Sane(Deselected(c)) /\ Deselected(c).mode \notin {"sending", "taking"}
         /\ Deselected(c).kind = c.kind
         /\ Deselected(c).mode = "busy" <=> c.mode = "busy"
         /\ c.mode \notin {"sending", "taking"} => Deselected(c) = c
         /\ Deselected(c).mode \in {"off", "idle"} => Deselected(c) = c
  BY DEF Deselected, Sane, CardState

LEMMA ReturnInv ==
  ASSUME SdInv, NEW r, NEW c, Return(r, c), Sane(c), Fits(c),
         UNCHANGED <<mem, fast>>
  PROVE  SdInv'
<1>1. sd' \in [sdhc : BOOLEAN, v2 : BOOLEAN, ready : BOOLEAN]
      /\ sd'.sdhc = sd.sdhc /\ (sd'.ready => sd.ready)
      /\ (sd.ready /\ r # Error => sd'.ready)
  BY DEF SdInv, CardTypes, Return
<1>2. CardTypes'
  BY <1>1, Ended DEF SdInv, CardTypes, Return, Sane
<1>3. CallInv'
  <2>1. << >> \in Seq(Reads \cup Writes)
    OBVIOUS
  <2> QED BY <1>1, <2>1 DEF SdInv, CallInv, Return
<1>4. Fits(card)'
  BY <1>1, Ended DEF Fits, Return
<1>5. MatchInv'
  BY <1>1, <1>4, Ended DEF SdInv, MatchInv, Return
<1>6. InitialInv' /\ TransferInv'
  BY Ended DEF InitialInv, TransferInv, Return, InitSteps, ReadSteps, WriteSteps
<1> QED BY <1>2, <1>3, <1>5, <1>6 DEF SdInv

LEMMA InitGoto ==
  ASSUME SdInv, pc \in InitSteps, NEW p \in InitSteps, NEW c, Goto(p, c),
         Sane(c), c.mode \notin {"sending", "taking"}, UNCHANGED mem,
         sd' \in [sdhc : BOOLEAN, v2 : BOOLEAN, ready : {FALSE}], InitialInv'
  PROVE  SdInv'
<1>1. CardTypes'
  BY DEF SdInv, CardTypes, Goto, caller, Sane
<1>2. CallInv'
  BY DEF SdInv, CallInv, Goto, caller, InitSteps, ReadSteps, WriteSteps
<1>3. MatchInv'
  BY DEF MatchInv, Fits, Goto
<1>4. TransferInv'
  BY DEF TransferInv, Goto, InitSteps, ReadSteps, WriteSteps
<1> QED BY <1>1, <1>2, <1>3, <1>4 DEF SdInv

LEMMA TransferGoto ==
  ASSUME SdInv, NEW p, NEW c, Goto(p, c), Sane(c), Fits(c),
         UNCHANGED <<mem, fast, sd>>,
         \/ pc \in ReadSteps /\ p \in ReadSteps
         \/ pc \in WriteSteps /\ p \in WriteSteps,
         c.mode = "sending" => p \in {"token", "block_in", "crc"},
         c.mode = "taking" => p = "block_out",
         TransferInv'
  PROVE  SdInv'
<1>1. CardTypes'
  BY DEF SdInv, CardTypes, Goto, caller, Sane
<1>2. CallInv'
  BY DEF SdInv, CallInv, Goto, caller, InitSteps, ReadSteps, WriteSteps
<1>3. MatchInv'
  BY DEF SdInv, MatchInv, Fits, Goto
<1>4. InitialInv'
  BY DEF InitialInv, Goto, InitSteps, ReadSteps, WriteSteps
<1> QED BY <1>1, <1>2, <1>3, <1>4 DEF SdInv

\* Commands of hk_sd_init: the card is not in a transfer.
LEMMA InitCommand ==
  ASSUME SdInv, pc \in InitSteps
  PROVE  /\ card.mode \notin {"sending", "taking"} /\ ~sd.ready /\ Sane(card)
         /\ sd \in [sdhc : BOOLEAN, v2 : BOOLEAN, ready : {FALSE}]
         /\ \A c : Fits(c)
<1>1. ~sd.ready
  BY DEF SdInv, CallInv, InitSteps, ReadSteps, WriteSteps
<1> QED BY <1>1 DEF SdInv, CardTypes, MatchInv, Fits, InitSteps

LEMMA StepSpeed == ASSUME SdInv, init_speed PROVE SdInv'
<1>1. pc \in InitSteps /\ "warmup" \in InitSteps
  BY DEF init_speed, InitSteps
<1>2. CASE Goto("warmup", card)
  <2>1. InitialInv'
    BY <1>2 DEF init_speed, InitialInv, Goto
  <2> QED BY <1>1, <1>2, <2>1, InitCommand, InitGoto DEF init_speed
<1>3. CASE EndInit
  <2>1. CallInv'
    BY <1>1, <1>3, InitCommand DEF SdInv, CallInv, init_speed, EndInit
  <2>2. CardTypes'
    BY <1>3 DEF SdInv, CardTypes, init_speed, EndInit, Sane
  <2>3. MatchInv'
    BY <1>1, <1>3, InitCommand DEF MatchInv, Fits, init_speed, EndInit
  <2>4. InitialInv' /\ TransferInv'
    BY <1>1, <1>3, InitCommand DEF EndInit, InitialInv, TransferInv, InitSteps,
       ReadSteps, WriteSteps
  <2> QED BY <2>1, <2>2, <2>3, <2>4 DEF SdInv
<1> QED BY <1>2, <1>3 DEF init_speed, op_set_speed

LEMMA StepWarmup == ASSUME SdInv, init_warmup PROVE SdInv'
<1>1. pc \in InitSteps /\ UNCHANGED <<mem, sd, fast, stable, card, left, got>>
  BY DEF init_warmup, InitSteps, EndInit, caller
<1>2. card.mode \notin {"sending", "taking"} /\ ~sd.ready
  BY <1>1, InitCommand
<1>3. \/ pc' = "cmd0" /\ call' = call
      \/ pc' = "idle" /\ call' = NoCall
  BY DEF init_warmup, EndInit, caller
<1>4. CardTypes'
  BY <1>1 DEF SdInv, CardTypes, Sane
<1>5. CallInv'
  BY <1>1, <1>2, <1>3 DEF SdInv, CallInv, InitSteps, ReadSteps, WriteSteps
<1>6. MatchInv'
  BY <1>1, <1>2 DEF MatchInv, Fits
<1>7. InitialInv'
  BY <1>1, <1>3 DEF init_warmup, SdInv, InitialInv, InitSteps
<1>8. TransferInv'
  BY <1>1, <1>2, <1>3 DEF TransferInv, ReadSteps, WriteSteps
<1> QED BY <1>4, <1>5, <1>6, <1>7, <1>8 DEF SdInv

LEMMA StepCmd0 == ASSUME Clear, SdInv, WornInv, init_cmd0 PROVE SdInv'
<1>1. pc \in InitSteps /\ {"cmd0", "cmd8"} \subseteq InitSteps /\ pc = "cmd0"
      /\ UNCHANGED <<mem, fast>>
  BY DEF init_cmd0, InitSteps
<1>2. PICK a \in send_cmd(0, 0) :
       \/ a.r1 = 1 /\ To("cmd8", a) /\ UNCHANGED sd
       \/ To("cmd0", a) /\ UNCHANGED sd
       \/ EndBy(Error, a)
  BY DEF init_cmd0
<1>3. CardTypes /\ 0 \in Commands
  BY DEF SdInv, Commands
<1>4. /\ Sane(a.card) /\ a.card \in {card, Exec(0, 0).card}
      /\ a.r1 = 1 => a.card.mode = "idle"
  <2>1. Sane(a.card) /\ a.card \in {card, Exec(0, 0).card}
    BY <1>1, <1>2, <1>3, InitCommand, Replies
  <2>2. ASSUME a.r1 = 1 PROVE a.card.mode = "idle"
    <3> DEFINE x == Exec(0, 0)
    <3>1. \/ x \in {Reply(255, card), Reply(1, Reset(card))}
          \/ x = Reply(0, card) /\ card.mode = "busy"
      <4>1. /\ card.mode \in {"off", "idle", "tran", "busy"}
            /\ card.here \/ card.mode = "off"
        BY <1>1, <1>3, InitCommand, Modes
      <4> QED BY <1>3, <4>1, ExecDeaf, ExecPlain
    <3>2. /\ a.card = x.card /\ x.r1 \in R1
          /\ x.r1 = 1 \/ (MisoNoise /\ ~Worn /\ 1 \in Changed[x.r1])
      BY <1>1, <1>2, <1>3, <2>2, InitCommand, Heard DEF WornInv
    <3> HIDE DEF x
    <3>3. x.r1 = 1 \/ (MisoNoise /\ ~Worn /\ x.r1 \in {0, 5})
      BY <3>2, Changes
    <3>4. x = Reply(1, Reset(card))
      BY <1>1, <3>1, <3>3 DEF Reply, WornInv
    <3>5. a.card = Reset(card)
      BY <3>2, <3>4 DEF Reply
    <3> QED BY <1>3, <3>5 DEF Reset, CardTypes, Sane, CardState
  <2> QED BY <2>1, <2>2
<1>5. a.card.mode \notin {"sending", "taking"}
  <2>1. Exec(0, 0).card \in {card, Reset(card)}
    <3>1. /\ card.mode \in {"off", "idle", "tran", "busy"}
          /\ card.here \/ card.mode = "off"
      BY <1>1, <1>3, InitCommand, Modes
    <3> QED BY <1>3, <3>1, ExecDeaf, ExecPlain DEF Reply
  <2> QED BY <1>1, <1>3, <1>4, <2>1, InitCommand DEF Reset, CardTypes, Sane, CardState
<1>6. CASE a.r1 = 1 /\ To("cmd8", a) /\ UNCHANGED sd
  <2>1. InitialInv'
    BY <1>1, <1>4, <1>6 DEF To, Goto, SdInv, InitialInv, InitSteps
  <2> QED BY <1>1, <1>4, <1>5, <1>6, <2>1, InitCommand, InitGoto DEF To
<1>7. CASE To("cmd0", a) /\ UNCHANGED sd
  <2>1. InitialInv'
    BY <1>1, <1>7 DEF To, Goto, SdInv, InitialInv, InitSteps
  <2> QED BY <1>1, <1>4, <1>5, <1>7, <2>1, InitCommand, InitGoto DEF To
<1>8. CASE EndBy(Error, a)
  BY <1>1, <1>4, <1>8, InitCommand, ReturnInv DEF EndBy
<1> QED BY <1>2, <1>6, <1>7, <1>8

\* CMD8, CMD16, CMD55 and CMD58 change nothing on the card.
LEMMA Unmoved ==
  ASSUME CardTypes, card.mode \notin {"sending", "taking"},
         NEW cmd \in {8, 16, 55, 58}, NEW arg, NEW a \in send_cmd(cmd, arg)
  PROVE  a.card = card
<1>1. cmd \in Commands
  BY DEF Commands
<1>2. /\ card.mode \in {"off", "idle", "tran", "busy"}
      /\ card.here \/ card.mode = "off"
  BY Modes
<1>3. Exec(cmd, arg).card = card
  BY <1>1, <1>2, ExecDeaf, ExecPlain DEF Reply
<1> QED BY <1>1, <1>3, Replies

\* From one step of hk_sd_init to the next with the card as it was.
LEMMA InitOn ==
  ASSUME SdInv, pc \in InitSteps, NEW p \in InitSteps, Goto(p, card),
         UNCHANGED <<mem, sd>>,
         p \in {"cmd8", "echo", "cmd55", "acmd41"} => card.mode \in {"idle", "off"},
         p \in {"cmd58", "ocr", "cmd16", "fast"} => card.mode \in {"tran", "off"},
         p \in {"speed", "fast"} \/ pc \notin {"speed", "fast"},
         p \in {"cmd16", "fast"} =>
           (card.mode = "tran" => (sd.sdhc <=> card.kind = "hc"))
  PROVE  SdInv'
<1>1. InitialInv'
  BY DEF SdInv, InitialInv, Goto
<1> QED BY <1>1, InitCommand, InitGoto

LEMMA StepCmd8 == ASSUME SdInv, init_cmd8 PROVE SdInv'
<1>1. pc \in InitSteps /\ {"echo", "cmd55"} \subseteq InitSteps /\ pc = "cmd8"
      /\ card.mode \in {"idle", "off"} /\ CardTypes
  BY DEF init_cmd8, InitSteps, SdInv, InitialInv
<1>2. PICK a \in send_cmd(8, 0), p \in {"echo", "cmd55"} : To(p, a)
  BY DEF init_cmd8
<1>3. Goto(p, card)
  BY <1>1, <1>2, Unmoved DEF To
<1> QED BY <1>1, <1>3, InitOn DEF init_cmd8

LEMMA StepEcho == ASSUME SdInv, init_echo PROVE SdInv'
<1>1. pc \in InitSteps /\ "cmd55" \in InitSteps /\ pc = "echo"
      /\ card.mode \in {"idle", "off"} /\ UNCHANGED <<mem, fast>>
  BY DEF init_echo, InitSteps, SdInv, InitialInv
<1>2. CASE Goto("cmd55", card) /\ sd' = [sd EXCEPT !.v2 = TRUE]
  <2>1. sd' \in [sdhc : BOOLEAN, v2 : BOOLEAN, ready : {FALSE}]
        /\ sd'.sdhc = sd.sdhc
    BY <1>1, <1>2, InitCommand
  <2>2. InitialInv'
    BY <1>1, <1>2, <2>1 DEF SdInv, InitialInv, Goto, InitSteps
  <2> QED BY <1>1, <1>2, <2>1, <2>2, InitCommand, InitGoto
<1>3. CASE Return(Error, card)
  BY <1>1, <1>3, InitCommand, ReturnInv
<1> QED BY <1>2, <1>3 DEF init_echo, read_r3_r7_tail

LEMMA StepCmd55 == ASSUME SdInv, WornInv, init_cmd55 PROVE SdInv'
<1>1. pc \in InitSteps /\ "acmd41" \in InitSteps /\ pc = "cmd55" /\ CardTypes
      /\ ~sd.sdhc /\ card.mode \notin {"sending", "taking"}
      /\ UNCHANGED <<mem, fast>>
  BY InitCommand DEF init_cmd55, InitSteps, SdInv, InitialInv
<1>2. PICK a \in send_cmd(55, 0) :
        \/ EndBy(Error, a)
        \/ To("acmd41", a) /\ UNCHANGED sd
  BY DEF init_cmd55
<1>3. a.card = card /\ a.cost \in {0, 1}
  BY <1>1, <1>2, Unmoved, Costs DEF Commands
<1>4. CASE To("acmd41", a) /\ UNCHANGED sd
  <2>1. pc' = "acmd41" /\ card' = card /\ sd' = sd /\ (Worn => Worn')
    BY <1>3, <1>4 DEF To, Goto, Worn, WornInv
  <2>2. InitialInv'
    BY <1>1, <2>1 DEF SdInv, InitialInv
  <2> QED BY <1>1, <1>3, <1>4, <2>2, InitCommand, InitGoto DEF To
<1>5. CASE EndBy(Error, a)
  BY <1>1, <1>3, <1>5, InitCommand, ReturnInv DEF EndBy
<1> QED BY <1>2, <1>4, <1>5

\* ACMD41 brings the card up, one that is told of high capacity if it is of it.
LEMMA Starting ==
  ASSUME CardTypes, card.mode \in {"idle", "off"}, NEW arg
  PROVE  \/ Exec(41, arg) = Reply(255, card)
         \/ Exec(41, arg).r1 = 1 /\ Exec(41, arg).card.mode = "idle"
         \/ /\ Exec(41, arg).r1 = 0 /\ Exec(41, arg).card.mode = "tran"
            /\ card.kind = "hc" => arg
<1>1. 41 \in Commands /\ card \in CardState
  BY DEF Commands, CardTypes, Sane
<1>2. CASE card.mode = "off"
  BY <1>1, <1>2, ExecDeaf
<1>3. CASE card.mode = "idle"
  <2>1. card.here
    BY <1>3 DEF CardTypes, Sane
  <2> DEFINE up == [card EXCEPT !.mode = "tran"]
             warm == [card EXCEPT !.warm = TRUE]
  <2>2. up.mode = "tran" /\ warm.mode = card.mode
    BY <1>1 DEF CardState
  <2>3. Exec(41, arg) = IF card.kind = "hc" /\ ~arg THEN Reply(1, card)
                        ELSE IF card.warm THEN Reply(0, up)
                        ELSE Reply(1, warm)
    BY <1>3, <2>1, ExecStart
  <2> HIDE DEF up, warm
  <2>4. \/ Exec(41, arg) \in {Reply(1, card), Reply(1, warm)}
        \/ Exec(41, arg) = Reply(0, up) /\ (card.kind = "hc" => arg)
    BY <2>3
  <2> QED BY <1>3, <2>2, <2>4 DEF Reply
<1> QED BY <1>2, <1>3

LEMMA StepAcmd41 == ASSUME Clear, SdInv, WornInv, init_acmd41 PROVE SdInv'
<1>1. pc \in InitSteps /\ {"cmd55", "cmd58", "cmd16"} \subseteq InitSteps
      /\ pc = "acmd41" /\ CardTypes /\ ~sd.sdhc
      /\ card.mode \notin {"sending", "taking"} /\ UNCHANGED <<mem, fast>>
  BY InitCommand DEF init_acmd41, InitSteps, SdInv, InitialInv
<1>2. PICK a \in send_cmd(41, sd.v2) :
        \/ a.r1 = 0 /\ To(IF sd.v2 THEN "cmd58" ELSE "cmd16", a) /\ UNCHANGED sd
        \/ a.r1 \in {1, 32} /\ To("cmd55", a) /\ UNCHANGED sd
        \/ EndBy(Error, a)
  BY DEF init_acmd41
<1>3. 41 \in Commands
  BY DEF Commands
<1>4. Sane(a.card) /\ a.card.kind = card.kind /\ a.cost \in {0, 1}
  BY <1>1, <1>2, <1>3, Replies, Costs
<1> DEFINE x == Exec(41, sd.v2)
<1>5. \/ x = Reply(255, card)
      \/ x.r1 = 1 /\ x.card.mode = "idle"
      \/ x.r1 = 0 /\ x.card.mode = "tran" /\ (card.kind = "hc" => sd.v2)
  <2>1. CASE card.mode \in {"idle", "off"}
    BY <1>1, <2>1, Starting
  <2>2. CASE Worn /\ card.mode = "tran" /\ (card.kind = "hc" => sd.v2)
    <3>1. card.here
      BY <1>1, <2>2 DEF CardTypes, Sane
    <3>2. x = Reply(0, card)
      BY <2>2, <3>1, ExecStart
    <3> QED BY <2>2, <3>2 DEF Reply
  <2> QED BY <1>1, <2>1, <2>2 DEF SdInv, InitialInv
<1>6. a.card.mode \notin {"sending", "taking"}
  <2>1. a.card \in {card, x.card}
    BY <1>1, <1>2, <1>3, Replies
  <2> QED BY <1>1, <1>5, <2>1 DEF Reply
<1>7. a.r1 # 255 =>
        /\ a.card = x.card /\ x.r1 \in R1
        /\ a.r1 = x.r1 \/ (MisoNoise /\ a.cost = 1 /\ a.r1 \in Changed[x.r1])
  BY <1>1, <1>2, <1>3, Heard DEF WornInv
<1> HIDE DEF x
<1>8. CASE a.r1 = 0 /\ To(IF sd.v2 THEN "cmd58" ELSE "cmd16", a) /\ UNCHANGED sd
  <2>1. \/ a.card.mode = "tran" /\ (card.kind = "hc" => sd.v2)
        \/ a.card.mode = "idle" /\ MisoNoise /\ a.cost = 1
    BY <1>5, <1>7, <1>8, Changes DEF Reply
  <2>2. pc' = (IF sd.v2 THEN "cmd58" ELSE "cmd16") /\ card' = a.card /\ sd' = sd
        /\ faults' = faults + a.cost
    BY <1>8 DEF To, Goto
  <2>3. InitialInv'
    BY <1>1, <1>4, <2>1, <2>2 DEF InitialInv, Worn, WornInv
  <2> QED BY <1>1, <1>4, <1>6, <1>8, <2>3, InitCommand, InitGoto DEF To
<1>9. CASE a.r1 \in {1, 32} /\ To("cmd55", a) /\ UNCHANGED sd
  <2>1. \/ a.card.mode = "idle"
        \/ /\ a.card.mode = "tran" /\ (card.kind = "hc" => sd.v2)
           /\ MisoNoise /\ a.cost = 1
    <3>1. \A r \in R1 : 32 \in Changed[r] => r = 0
      BY DEF Changed, R1
    <3> QED BY <1>5, <1>7, <1>9, <3>1, Changes DEF Reply
  <2>2. pc' = "cmd55" /\ card' = a.card /\ sd' = sd /\ faults' = faults + a.cost
    BY <1>9 DEF To, Goto
  <2>3. InitialInv'
    BY <1>1, <1>4, <2>1, <2>2 DEF InitialInv, Worn, WornInv
  <2> QED BY <1>1, <1>4, <1>6, <1>9, <2>3, InitCommand, InitGoto DEF To
<1>10. CASE EndBy(Error, a)
  BY <1>1, <1>4, <1>10, InitCommand, ReturnInv DEF EndBy
<1> QED BY <1>2, <1>8, <1>9, <1>10

\* A card in idle state lets CMD58 and CMD16 be refused, unless the fault is
\* still to come.
LEMMA Refused ==
  ASSUME Clear, CardTypes, WornInv, Worn, card.mode = "idle",
         NEW cmd \in {16, 58}, NEW arg, NEW a \in send_cmd(cmd, arg)
  PROVE  a.r1 # 0
<1>1. card.here /\ cmd \in Commands
  BY DEF CardTypes, Sane, Commands
<1>2. Exec(cmd, arg) = Reply(5, card) \/ Exec(cmd, arg) = Reply(1, card)
  BY <1>1, ExecPlain DEF idle
<1>3. Exec(cmd, arg).r1 # 0
  BY <1>2 DEF Reply
<1> QED BY <1>1, <1>3, Heard DEF WornInv

LEMMA StepCmd58 == ASSUME Clear, SdInv, WornInv, init_cmd58 PROVE SdInv'
<1>1. pc \in InitSteps /\ "ocr" \in InitSteps /\ pc = "cmd58" /\ CardTypes
      /\ (card.mode \in {"tran", "off"} \/ (Worn /\ card.mode = "idle"))
      /\ card.mode \notin {"sending", "taking"} /\ UNCHANGED <<mem, fast>>
  BY InitCommand DEF init_cmd58, InitSteps, SdInv, InitialInv
<1>2. PICK a \in send_cmd(58, 0) :
        \/ EndBy(Error, a)
        \/ a.r1 = 0 /\ To("ocr", a) /\ UNCHANGED sd
  BY DEF init_cmd58
<1>3. a.card = card
  BY <1>1, <1>2, Unmoved
<1>4. CASE a.r1 = 0 /\ To("ocr", a) /\ UNCHANGED sd
  <2>1. card.mode \in {"tran", "off"}
    BY <1>1, <1>2, <1>4, Refused
  <2> QED BY <1>1, <1>3, <1>4, <2>1, InitOn DEF To
<1>5. CASE EndBy(Error, a)
  BY <1>1, <1>3, <1>5, InitCommand, ReturnInv DEF EndBy
<1> QED BY <1>2, <1>4, <1>5

LEMMA StepOcr == ASSUME SdInv, init_ocr PROVE SdInv'
<1>1. pc \in InitSteps /\ {"fast", "cmd16"} \subseteq InitSteps /\ pc = "ocr"
      /\ card.mode \in {"tran", "off"} /\ ~sd.sdhc /\ UNCHANGED <<mem, fast>>
  BY DEF init_ocr, InitSteps, SdInv, InitialInv
<1> DEFINE ccs == \/ card.mode = "off"
                  \/ card.mode = "tran" /\ card.kind = "hc"
<1>2. CASE /\ sd' = [sd EXCEPT !.sdhc = ccs]
           /\ Goto(IF ccs THEN "fast" ELSE "cmd16", card)
  <2>1. sd' \in [sdhc : BOOLEAN, v2 : BOOLEAN, ready : {FALSE}]
        /\ sd'.sdhc = ccs
    BY <1>1, <1>2, InitCommand
  <2>2. card' = card /\ pc' = (IF ccs THEN "fast" ELSE "cmd16")
    BY <1>2 DEF Goto
  <2>3. InitialInv'
    BY <1>1, <2>1, <2>2 DEF InitialInv
  <2> QED BY <1>1, <1>2, <2>1, <2>3, InitCommand, InitGoto
<1>3. CASE Return(Error, card)
  BY <1>1, <1>3, InitCommand, ReturnInv
<1> QED BY <1>2, <1>3 DEF init_ocr, read_r3_r7_tail

LEMMA StepCmd16 == ASSUME Clear, SdInv, WornInv, init_cmd16 PROVE SdInv'
<1>1. /\ pc \in InitSteps /\ "fast" \in InitSteps /\ pc = "cmd16" /\ CardTypes
      /\ (card.mode \in {"tran", "off"} \/ (Worn /\ card.mode = "idle"))
      /\ card.mode \notin {"sending", "taking"} /\ UNCHANGED <<mem, fast>>
      /\ card.mode = "tran" => (sd.sdhc <=> card.kind = "hc")
  BY InitCommand DEF init_cmd16, InitSteps, SdInv, InitialInv
<1>2. PICK a \in send_cmd(16, 0) :
        \/ EndBy(Error, a)
        \/ a.r1 = 0 /\ To("fast", a) /\ UNCHANGED sd
  BY DEF init_cmd16
<1>3. a.card = card
  BY <1>1, <1>2, Unmoved
<1>4. CASE a.r1 = 0 /\ To("fast", a) /\ UNCHANGED sd
  <2>1. card.mode \in {"tran", "off"}
    BY <1>1, <1>2, <1>4, Refused
  <2> QED BY <1>1, <1>3, <1>4, <2>1, InitOn DEF To
<1>5. CASE EndBy(Error, a)
  BY <1>1, <1>3, <1>5, InitCommand, ReturnInv DEF EndBy
<1> QED BY <1>2, <1>4, <1>5

LEMMA StepFast == ASSUME SdInv, init_fast PROVE SdInv'
<1>1. /\ pc \in InitSteps /\ pc = "fast" /\ card.mode \in {"tran", "off"}
      /\ card.mode = "tran" => (sd.sdhc <=> card.kind = "hc")
  BY DEF init_fast, InitSteps, SdInv, InitialInv
<1>2. /\ pc' = "idle" /\ call' = NoCall
      /\ UNCHANGED <<card, mem, left, got>>
      /\ \/ sd' = [sd EXCEPT !.ready = TRUE] /\ fast' = TRUE
         \/ UNCHANGED sd
  BY DEF init_fast, op_set_speed
<1>3. /\ sd' \in [sdhc : BOOLEAN, v2 : BOOLEAN, ready : BOOLEAN]
      /\ sd'.sdhc = sd.sdhc /\ (sd'.ready => fast' = TRUE)
  BY <1>1, <1>2, InitCommand
<1>4. CardTypes'
  BY <1>2, <1>3 DEF SdInv, CardTypes, Sane
<1>5. CallInv'
  BY <1>1, <1>2, InitCommand DEF SdInv, CallInv
<1>6. MatchInv'
  BY <1>1, <1>2, <1>3 DEF MatchInv, Fits
<1>7. InitialInv' /\ TransferInv'
  BY <1>1, <1>2 DEF InitialInv, TransferInv, InitSteps, ReadSteps, WriteSteps
<1> QED BY <1>4, <1>5, <1>6, <1>7 DEF SdInv

LEMMA InitStep == ASSUME Clear, SdInv, WornInv, hk_sd_init PROVE SdInv'
  BY StepSpeed, StepWarmup, StepCmd0, StepCmd8, StepEcho, StepCmd55, StepAcmd41,
     StepCmd58, StepOcr, StepCmd16, StepFast DEF hk_sd_init

-----------------------------------------------------------------------------
(* Blocks. *)

\* The address sent is taken for the block that was meant.
LEMMA RightBlock ==
  ASSUME SdInv, sd.ready, card.mode \notin {"off", "idle"}, NEW lba \in Int,
         NEW b \in Addressed(block_addr(lba))
  PROVE  b = lba
<1>1. sd.sdhc <=> card.kind = "hc"
  BY DEF SdInv, MatchInv, Fits
<1>2. CASE card.kind = "hc"
  BY <1>1, <1>2 DEF Addressed, block_addr
<1>3. CASE card.kind # "hc"
  <2>1. b * BlockSize = lba * BlockSize /\ b \in Int
    BY <1>1, <1>3, SdAssumption DEF Addressed, block_addr
  <2>2. BlockSize \in Nat \ {0}
    BY SdAssumption
  <2>3. \A n \in Nat \ {0} : b * n = lba * n => b = lba
    BY <2>1
  <2> QED BY <2>1, <2>2, <2>3
<1> QED BY <1>2, <1>3

\* CMD17 and CMD24: the card begins the transfer of that block, or is as it was.
LEMMA BlockReply ==
  ASSUME Clear, SdInv, WornInv, sd.ready, card.mode \notin {"sending", "taking"},
         NEW cmd \in {17, 24}, NEW lba \in Int,
         NEW a \in send_cmd(cmd, block_addr(lba))
  PROVE  \/ a.card = card /\ (a.r1 = 0 => card.mode = "busy")
         \/ a.card = card /\ card.mode = "tran" /\ MisoNoise /\ a.cost = 1
         \/ /\ card.mode = "tran" /\ card.here /\ Sane(a.card) /\ Fits(a.card)
            /\ a.card.mode = (IF cmd = 17 THEN "sending" ELSE "taking")
            /\ a.card.at = lba
<1> DEFINE arg == block_addr(lba)
           x == Exec(cmd, arg)
           b == CHOOSE b \in Addressed(arg) : TRUE
           m == IF cmd = 17 THEN "sending" ELSE "taking"
           moved == [card EXCEPT !.mode = m, !.at = b]
<1>1. cmd \in Commands /\ CardTypes /\ card \in CardState
  BY DEF Commands, SdInv, CardTypes, Sane
<1>2. /\ card.mode \in {"off", "tran", "busy"} /\ (card.here \/ card.mode = "off")
  BY <1>1, Modes DEF SdInv, MatchInv, Fits
<1>3. \/ x = Reply(255, card)
      \/ x = Reply(32, card) /\ card.mode = "tran"
      \/ x = Reply(0, card) /\ card.mode = "busy"
      \/ /\ x = Reply(0, moved) /\ card.mode = "tran" /\ card.here
         /\ Addressed(arg) # {}
  <2>1. CASE card.mode \in {"off", "busy"}
    BY <1>1, <1>2, <2>1, ExecDeaf
  <2>2. CASE card.mode = "tran" /\ card.here
    <3>1. x = IF Addressed(arg) = {} THEN Reply(32, card) ELSE Reply(0, moved)
      BY <2>2, ExecBlock
    <3> QED BY <2>2, <3>1
  <2> QED BY <1>2, <2>1, <2>2
<1>4. ASSUME card.mode = "tran", card.here, Addressed(arg) # {}
      PROVE  /\ moved.mode = m /\ moved.at = lba
             /\ Sane(moved) /\ Fits(moved)
  <2>1. b \in Addressed(arg) /\ b \in Block /\ b \in Nat
    BY <1>4, Found, SdAssumption DEF Addressed
  <2>2. b = lba
    BY <1>4, <2>1, RightBlock
  <2> HIDE DEF b
  <2>3. moved \in CardState /\ moved.mode = m /\ moved.at = b
        /\ moved.kind = card.kind /\ moved.here = card.here
    BY <1>1, <2>1 DEF CardState
  <2> HIDE DEF moved
  <2> QED BY <1>4, <2>1, <2>2, <2>3 DEF Sane, SdInv, MatchInv, Fits
<1>5. a.card \in {card, x.card}
  BY <1>1, Replies
<1>6. a.r1 = 0 =>
        /\ a.card = x.card /\ x.r1 \in R1
        /\ x.r1 = 0 \/ (MisoNoise /\ a.cost = 1 /\ 0 \in Changed[x.r1])
  BY <1>1, Heard DEF WornInv
<1> HIDE DEF x, moved
<1> QED BY <1>3, <1>4, <1>5, <1>6, Changes DEF Reply

\* What holds of the card between the steps of a block.
LEMMA Transferring ==
  ASSUME SdInv
  PROVE  /\ CardTypes /\ Sane(card) /\ Fits(card)
         /\ pc \in ReadSteps => call \in Reads /\ sd.ready /\ call.lba \in Int
         /\ pc \in WriteSteps => call \in Writes /\ sd.ready /\ call.lba \in Int
         /\ card.mode = "sending" => pc \in {"token", "block_in", "crc"}
         /\ card.mode = "taking" => pc = "block_out"
<1>1. /\ CardTypes /\ Sane(card) /\ Fits(card)
      /\ card.mode = "sending" => pc \in {"token", "block_in", "crc"}
      /\ card.mode = "taking" => pc = "block_out"
  BY DEF SdInv, CardTypes, MatchInv
<1>2. pc \in ReadSteps => call \in Reads /\ sd.ready
  BY DEF SdInv, CallInv, InitSteps, ReadSteps, WriteSteps
<1>3. pc \in WriteSteps => call \in Writes /\ sd.ready
  BY DEF SdInv, CallInv, InitSteps, ReadSteps, WriteSteps
<1>4. (call \in Reads => call.lba \in Int) /\ (call \in Writes => call.lba \in Int)
  BY DEF Reads, Writes
<1> QED BY <1>1, <1>2, <1>3, <1>4

LEMMA StepRead ==
  ASSUME Clear, SdInv, WornInv, read_cmd17 \/ read_token \/ read_data \/ read_crc
  PROVE  SdInv'
<1>1. CASE read_cmd17
  <2>1. /\ pc = "cmd17" /\ pc \in ReadSteps /\ "token" \in ReadSteps
        /\ UNCHANGED <<mem, fast, stable>>
    BY <1>1 DEF read_cmd17, ReadSteps
  <2>2. PICK a \in send_cmd(17, block_addr(call.lba)) :
          \/ EndBy(Error, a)
          \/ a.r1 = 0 /\ To("token", a) /\ UNCHANGED sd
    BY <1>1 DEF read_cmd17
  <2>3. \/ a.card = card
        \/ /\ card.mode = "tran" /\ Sane(a.card) /\ Fits(a.card)
           /\ a.card.mode = "sending" /\ a.card.at = call.lba
    BY <2>1, <2>2, Transferring, BlockReply
  <2>4. Sane(a.card) /\ Fits(a.card)
    BY <2>3, Transferring
  <2>5. CASE a.r1 = 0 /\ To("token", a) /\ UNCHANGED sd
    <3>1. TransferInv'
      BY <2>1, <2>3, <2>5 DEF To, Goto, caller, SdInv, TransferInv
    <3> QED BY <2>1, <2>3, <2>4, <2>5, <3>1, Transferring, TransferGoto DEF To
  <2>6. CASE EndBy(Error, a)
    BY <2>1, <2>4, <2>6, ReturnInv DEF EndBy
  <2> QED BY <2>2, <2>5, <2>6
<1>2. CASE read_token
  <2>1. /\ pc = "token" /\ {pc, "block_in"} \subseteq ReadSteps
        /\ UNCHANGED <<mem, fast, stable>>
    BY <1>2 DEF read_token, ReadSteps
  <2>2. CASE card.mode = "sending" /\ Goto("block_in", card) /\ UNCHANGED sd
    <3>1. TransferInv'
      BY <2>1, <2>2 DEF Goto, caller, SdInv, TransferInv
    <3> QED BY <2>1, <2>2, <3>1, Transferring, TransferGoto
  <2>3. CASE Return(Error, card)
    BY <2>1, <2>3, Transferring, ReturnInv
  <2> QED BY <1>2, <2>2, <2>3 DEF read_token
<1>3. CASE read_data
  <2>1. /\ pc = "block_in" /\ {pc, "crc"} \subseteq ReadSteps
        /\ UNCHANGED <<mem, fast, stable>>
    BY <1>3 DEF read_data, ReadSteps
  <2>2. CASE /\ card.mode = "sending" /\ got' = mem[card.at] /\ pc' = "crc"
             /\ UNCHANGED <<card, cs, call, left, reply, sd>>
    <3>1. card.at \in Block /\ card.at = call.lba
      BY <2>2, Transferring DEF Sane, SdInv, TransferInv
    <3>2. CardTypes'
      BY <2>1, <2>2, <3>1 DEF SdInv, CardTypes, Sane
    <3>3. CallInv'
      BY <2>1, <2>2, Transferring DEF SdInv, CallInv
    <3>4. MatchInv' /\ InitialInv'
      BY <2>1, <2>2 DEF SdInv, MatchInv, Fits, InitialInv, InitSteps
    <3>5. TransferInv'
      BY <2>1, <2>2, <3>1 DEF SdInv, TransferInv, ReadSteps
    <3> QED BY <3>2, <3>3, <3>4, <3>5 DEF SdInv
  <2>3. CASE Return(Error, card)
    BY <2>1, <2>3, Transferring, ReturnInv
  <2> QED BY <1>3, <2>2, <2>3 DEF read_data
<1>4. CASE read_crc
  BY <1>4, Transferring, ReturnInv DEF read_crc
<1> QED BY <1>1, <1>2, <1>3, <1>4

\* What a card may make of the block it is sent.
LEMMA Takes ==
  ASSUME SdInv, card.mode = "taking", NEW c \in Taken
  PROVE  /\ Sane(c) /\ Fits(c) /\ c.mode = "busy" /\ c.at = call.lba
         /\ ~MosiNoise => c.new = call.data
<1>1. PICK d \in {call.data} \cup (IF MosiNoise THEN {Foul} ELSE {}) :
        c = [card EXCEPT !.mode = "busy", !.new = d]
  BY DEF Taken
<1>2. pc = "block_out" /\ call \in Writes /\ call.data \in New
  <2>1. pc = "block_out" /\ pc \in WriteSteps
    BY Transferring DEF WriteSteps
  <2> QED BY <2>1, Transferring DEF Writes
<1>3. d \in Data /\ (~MosiNoise => d = call.data)
  BY <1>2 DEF Data
<1>4. c \in CardState /\ c.mode = "busy" /\ c.at = card.at /\ c.new = d
      /\ c.here = card.here /\ c.kind = card.kind
  BY <1>1, <1>3, Transferring DEF Sane, CardState
<1>5. card.at \in Block /\ card.at = call.lba /\ card.here
  BY Transferring DEF Sane, SdInv, TransferInv
<1> QED BY <1>3, <1>4, <1>5, Transferring DEF Sane, Fits

LEMMA StepWrite ==
  ASSUME Clear, SdInv, WornInv,
         \/ write_wait \/ write_cmd24 \/ write_data \/ write_response
         \/ write_program \/ hk_sd_wait_ready
  PROVE  SdInv'
<1>1. CASE write_wait
  <2>1. /\ pc = "wait" /\ {pc, "cmd24"} \subseteq WriteSteps
        /\ UNCHANGED <<mem, fast, stable>>
    BY <1>1 DEF write_wait, wait_not_busy, WriteSteps
  <2>2. CASE card.mode # "busy" /\ Goto("cmd24", card) /\ UNCHANGED sd
    <3>1. TransferInv'
      BY <2>1, <2>2 DEF Goto, caller, SdInv, TransferInv
    <3> QED BY <2>1, <2>2, <3>1, Transferring, TransferGoto
  <2>3. CASE Return(Error, card)
    BY <2>1, <2>3, Transferring, ReturnInv
  <2> QED BY <1>1, <2>2, <2>3 DEF write_wait, wait_not_busy
<1>2. CASE write_cmd24
  <2>1. /\ pc = "cmd24" /\ {pc, "block_out"} \subseteq WriteSteps
        /\ UNCHANGED <<mem, fast, stable>>
    BY <1>2 DEF write_cmd24, WriteSteps
  <2>2. PICK a \in send_cmd(24, block_addr(call.lba)) :
          \/ EndBy(Error, a)
          \/ a.r1 = 0 /\ To("block_out", a) /\ UNCHANGED sd
    BY <1>2 DEF write_cmd24
  <2>3. /\ card.mode # "busy"
        /\ \/ /\ a.card = card
              /\ a.r1 = 0 => card.mode = "tran" /\ MisoNoise /\ a.cost = 1
           \/ /\ card.mode = "tran" /\ Sane(a.card) /\ Fits(a.card)
              /\ a.card.mode = "taking" /\ a.card.at = call.lba
    <3>1. card.mode # "busy"
      BY <2>1 DEF SdInv, TransferInv
    <3> QED BY <2>1, <2>2, <3>1, Transferring, BlockReply
  <2>4. Sane(a.card) /\ Fits(a.card)
    BY <2>3, Transferring
  <2>5. CASE a.r1 = 0 /\ To("block_out", a) /\ UNCHANGED sd
    <3>1. TransferInv'
      BY <2>1, <2>3, <2>5 DEF To, Goto, caller, SdInv, TransferInv, WriteSteps,
         Worn, WornInv
    <3> QED BY <2>1, <2>3, <2>4, <2>5, <3>1, TransferGoto DEF To
  <2>6. CASE EndBy(Error, a)
    BY <2>1, <2>4, <2>6, ReturnInv DEF EndBy
  <2> QED BY <2>2, <2>5, <2>6
<1>3. CASE write_data
  <2>1. /\ pc = "block_out" /\ {pc, "response"} \subseteq WriteSteps
        /\ UNCHANGED <<mem, fast, stable>>
    BY <1>3 DEF write_data, WriteSteps
  <2>2. PICK c : /\ c = card \/ (card.mode = "taking" /\ c \in Taken)
                 /\ \/ /\ Goto("response", c) /\ UNCHANGED <<sd, faults>>
                       /\ card.mode = "taking" => c \in Taken
                    \/ Return(Error, c)
    BY <1>3 DEF write_data
  <2>3. Sane(c) /\ Fits(c)
    BY <2>2, Transferring, Takes
  <2>4. CASE /\ Goto("response", c) /\ UNCHANGED <<sd, faults>>
             /\ card.mode = "taking" => c \in Taken
    <3>1. \/ c = card /\ (card.mode = "off" \/ (Worn /\ card.mode = "tran"))
          \/ card.mode = "taking" /\ c.mode = "busy" /\ c.at = call.lba
      <4>1. card.mode \in {"taking", "off"} \/ (Worn /\ card.mode = "tran")
        BY <2>1 DEF SdInv, TransferInv
      <4> QED BY <2>2, <2>4, <4>1, Takes
    <3>2. TransferInv'
      BY <2>1, <2>4, <3>1 DEF Goto, caller, SdInv, TransferInv, WriteSteps, Worn
    <3> QED BY <2>1, <2>3, <2>4, <3>1, <3>2, TransferGoto
  <2>5. CASE Return(Error, c)
    BY <2>1, <2>3, <2>5, ReturnInv
  <2> QED BY <2>2, <2>4, <2>5
<1>4. CASE write_response
  <2>1. /\ pc = "response" /\ {pc, "program"} \subseteq WriteSteps
        /\ UNCHANGED <<mem, fast, stable>>
    BY <1>4 DEF write_response, WriteSteps
  <2>2. CASE card.mode = "busy" /\ Goto("program", card) /\ UNCHANGED sd
    <3>1. TransferInv'
      BY <2>1, <2>2 DEF Goto, caller, SdInv, TransferInv, WriteSteps
    <3> QED BY <2>1, <2>2, <3>1, Transferring, TransferGoto
  <2>3. CASE Return(Error, card)
    BY <2>1, <2>3, Transferring, ReturnInv
  <2> QED BY <1>4, <2>2, <2>3 DEF write_response
<1>5. CASE write_program
  BY <1>5, Transferring, ReturnInv DEF write_program, wait_not_busy
<1>6. CASE hk_sd_wait_ready
  BY <1>6, Transferring, ReturnInv DEF hk_sd_wait_ready, wait_not_busy
<1> QED BY <1>1, <1>2, <1>3, <1>4, <1>5, <1>6

-----------------------------------------------------------------------------
(* The slot and the caller. *)

LEMMA MediumStep == ASSUME SdInv, Medium PROVE SdInv'
<1>1. CASE Finish
  <2>1. /\ card.mode = "busy" /\ card' = [card EXCEPT !.mode = "tran"]
        /\ mem' = [mem EXCEPT ![card.at] = card.new] /\ pc # "response"
        /\ UNCHANGED <<sd, pc, cs, fast, tries, call, left, got, reply, stable>>
    BY <1>1 DEF Finish, driver, caller
  <2>2. card'.mode = "tran" /\ card'.kind = card.kind /\ Sane(card)'
    BY <2>1 DEF SdInv, CardTypes, Sane, CardState
  <2>3. CardTypes'
    BY <2>1, <2>2 DEF SdInv, CardTypes, Sane, CardState
  <2>4. CallInv'
    BY <2>1 DEF SdInv, CallInv
  <2>5. MatchInv'
    BY <2>1, <2>2 DEF SdInv, MatchInv, Fits
  <2>6. InitialInv' /\ TransferInv'
    BY <2>1, <2>2 DEF SdInv, InitialInv, TransferInv
  <2> QED BY <2>3, <2>4, <2>5, <2>6 DEF SdInv
<1>2. CASE Pull \/ Insert
  <2>1. /\ card' \in CardState /\ card'.mode = "off" /\ Sane(card)'
        /\ mem' \in [Block -> Data]
    <3>1. CASE Pull
      BY <3>1 DEF Pull, SdInv, CardTypes, Sane, CardState
    <3>2. CASE Insert
      <4>1. PICK c \in Cards \cup {[kind |-> card.kind, data |-> mem]} :
              /\ card' = [card EXCEPT !.here = TRUE, !.kind = c.kind]
              /\ mem' = c.data
        BY <3>2 DEF Insert
      <4>2. c.kind \in Kinds /\ c.data \in [Block -> Data]
        BY SdAssumption DEF SdInv, CardTypes, Sane, CardState
      <4> QED BY <3>2, <4>1, <4>2 DEF Insert, SdInv, CardTypes, Sane, CardState
    <3> QED BY <1>2, <3>1, <3>2
  <2>2. stable' = FALSE
        /\ UNCHANGED <<sd, pc, cs, fast, tries, call, left, got, reply>>
    BY <1>2 DEF Pull, Insert, driver, caller
  <2>3. CardTypes' /\ CallInv' /\ MatchInv'
    BY <2>1, <2>2 DEF SdInv, CardTypes, CallInv, MatchInv, Fits
  <2>4. InitialInv' /\ TransferInv'
    BY <2>1, <2>2 DEF SdInv, InitialInv, TransferInv
  <2> QED BY <2>3, <2>4 DEF SdInv
<1> QED BY <1>1, <1>2 DEF Medium

\* A call for the driver: an initialisation of a card that is not ready, or
\* blocks of one that is.
Calls == \/ call' = [op |-> "init"] /\ ~sd.ready /\ pc' = "speed" /\ left' = << >>
         \/ /\ sd.ready /\ left' \in Seq(Reads \cup Writes)
            /\ \/ call' \in Reads /\ pc' = "cmd17"
               \/ call' \in Writes /\ pc' = "wait"
               \/ call' = [op |-> "sync"] /\ pc' = "flush"

LEMMA StartInv ==
  ASSUME SdInv, pc = "idle", Calls, stable' = TRUE,
         UNCHANGED <<card, mem, sd, fast, got>>
  PROVE  SdInv'
<1>1. CardTypes'
  BY DEF SdInv, CardTypes, Sane
<1>2. CallInv'
  <2>1. << >> \in Seq(Reads \cup Writes)
    OBVIOUS
  <2> QED BY <2>1 DEF Calls, CallInv, InitSteps, ReadSteps, WriteSteps
<1>3. pc' \in {"speed", "cmd17", "wait", "flush"}
      /\ card.mode \notin {"sending", "taking"}
  BY DEF Calls, SdInv, MatchInv
<1>4. MatchInv'
  BY <1>3 DEF SdInv, MatchInv, Fits
<1>5. InitialInv' /\ TransferInv'
  BY <1>3 DEF InitialInv, TransferInv, InitSteps
<1> QED BY <1>1, <1>2, <1>4, <1>5 DEF SdInv

LEMMA StartCalls ==
  ASSUME sd.ready, NEW calls \in Seq(Reads \cup Writes), calls # << >>,
         Start(calls)
  PROVE  Calls
<1>1. Head(calls) \in Reads \cup Writes /\ Tail(calls) \in Seq(Reads \cup Writes)
  OBVIOUS
<1>2. (call' \in Reads => call'.op = "read") /\ (call' \in Writes => call'.op = "write")
  BY DEF Reads, Writes
<1> QED BY <1>1, <1>2 DEF Calls, Start, Step

LEMMA StartOne ==
  ASSUME NEW op \in {"init", "sync"}, op = "init" <=> ~sd.ready,
         Start(<<[op |-> op]>>)
  PROVE  Calls
<1>1. call' = [op |-> op] /\ left' = << >>
  BY DEF Start
<1>2. << >> \in Seq(Reads \cup Writes) /\ call'.op = op
  BY <1>1
<1> QED BY <1>1, <1>2 DEF Calls, Start, Step

LEMMA CallerCalls == ASSUME SdInv, Caller PROVE Calls
<1>1. CASE disk_initialize
  BY <1>1, StartOne DEF disk_initialize
<1>2. CASE disk_ioctl
  BY <1>2, StartOne DEF disk_ioctl
<1>3. CASE disk_read
  <2>1. PICK b \in Lba, n \in 1 .. MaxCount :
          Start([i \in 1 .. n |-> [op |-> "read", lba |-> b + i - 1]])
    BY <1>3 DEF disk_read
  <2> DEFINE calls == [i \in 1 .. n |-> [op |-> "read", lba |-> b + i - 1]]
  <2>2. b \in Int /\ n \in Nat \ {0}
    BY SdAssumption
  <2>3. \A i \in 1 .. n : [op |-> "read", lba |-> b + i - 1] \in Reads
    BY <2>2 DEF Reads
  <2>4. calls \in [1 .. n -> Reads \cup Writes]
    BY <2>3
  <2>5. calls \in Seq(Reads \cup Writes) /\ calls # << >>
    BY <2>2, <2>4, Listed
  <2> QED BY <1>3, <2>1, <2>5, StartCalls DEF disk_read
<1>4. CASE disk_write
  <2>1. PICK b \in Lba, n \in 1 .. MaxCount, d \in New :
          Start([i \in 1 .. n |->
                   [op |-> "write", lba |-> b + i - 1, data |-> d]])
    BY <1>4 DEF disk_write
  <2> DEFINE calls == [i \in 1 .. n |->
                         [op |-> "write", lba |-> b + i - 1, data |-> d]]
  <2>2. b \in Int /\ n \in Nat \ {0}
    BY SdAssumption
  <2>3. \A i \in 1 .. n :
          [op |-> "write", lba |-> b + i - 1, data |-> d] \in Writes
    BY <2>2 DEF Writes
  <2>4. calls \in [1 .. n -> Reads \cup Writes]
    BY <2>3
  <2>5. calls \in Seq(Reads \cup Writes) /\ calls # << >>
    BY <2>2, <2>4, Listed
  <2> QED BY <1>4, <2>1, <2>5, StartCalls DEF disk_write
<1>5. CASE NextBlock
  BY <1>5, StartCalls DEF NextBlock, SdInv, CallInv
<1> QED BY <1>1, <1>2, <1>3, <1>4, <1>5 DEF Caller

LEMMA CallerStep == ASSUME SdInv, Caller PROVE SdInv'
<1>1. /\ pc = "idle" /\ stable' = TRUE
      /\ UNCHANGED <<card, mem, sd, fast, got>>
  BY DEF Caller, disk_initialize, disk_read, disk_write, disk_ioctl, NextBlock, Start
<1> QED BY <1>1, CallerCalls, StartInv

LEMMA SdNext == ASSUME Clear, SdInv, WornInv, [Next]_vars PROVE SdInv'
<1>1. CASE UNCHANGED vars
  <2>1. CardTypes' /\ CallInv' /\ MatchInv'
    BY <1>1 DEF SdInv, CardTypes, CallInv, MatchInv, Sane, Fits, vars, driver, caller
  <2>2. InitialInv' /\ TransferInv'
    BY <1>1 DEF SdInv, InitialInv, TransferInv, Worn, vars, driver, caller
  <2> QED BY <2>1, <2>2 DEF SdInv
<1> QED
  BY <1>1, MediumStep, CallerStep, InitStep, StepRead, StepWrite DEF Next, Driver

\* Commands, of hk_sd_init and of blocks, with what becomes of their answers.
Answered(a) == faults' = faults + a.cost /\ card' \in {a.card, Deselected(a.card)}
Command == \E cmd \in Commands : \E arg : \E a \in send_cmd(cmd, arg) : Answered(a)

LEMMA CommandSteps ==
  ASSUME SdInv,
         \/ init_cmd0 \/ init_cmd8 \/ init_cmd55 \/ init_acmd41 \/ init_cmd58
         \/ init_cmd16 \/ read_cmd17 \/ write_cmd24
  PROVE  /\ Command /\ pc \notin {"response", "program"}
         /\ card.mode \notin {"sending", "taking"}
<1>1. pc \in {"cmd0", "cmd8", "cmd55", "acmd41", "cmd58", "cmd16", "cmd17", "cmd24"}
  BY DEF init_cmd0, init_cmd8, init_cmd55, init_acmd41, init_cmd58, init_cmd16,
     read_cmd17, write_cmd24
<1>2. card.mode \notin {"sending", "taking"}
  BY <1>1, Transferring
<1>3. CASE \/ init_cmd0 \/ init_cmd8 \/ init_cmd55 \/ init_acmd41 \/ init_cmd58
           \/ init_cmd16
  <2>1. PICK cmd \in {0, 8, 16, 41, 55, 58}, arg \in {0, sd.v2} :
          \E a \in send_cmd(cmd, arg) : Answered(a)
    <3> USE DEF Answered, EndBy, To, Goto, Return
    <3> QED BY <1>3 DEF init_cmd0, init_cmd8, init_cmd55, init_acmd41, init_cmd58,
       init_cmd16
  <2>2. cmd \in Commands
    BY DEF Commands
  <2> QED BY <1>1, <1>2, <2>1, <2>2 DEF Command
<1>4. CASE read_cmd17 \/ write_cmd24
  <2>1. PICK cmd \in {17, 24} :
          \E a \in send_cmd(cmd, block_addr(call.lba)) : Answered(a)
    BY <1>4 DEF read_cmd17, write_cmd24, Answered, EndBy, To, Goto, Return
  <2>2. cmd \in Commands
    BY DEF Commands
  <2> QED BY <1>1, <1>2, <2>1, <2>2 DEF Command
<1> QED BY <1>3, <1>4

LEMMA WornNext == ASSUME SdInv, WornInv, [Next]_vars PROVE WornInv'
<1>1. CASE \/ init_cmd0 \/ init_cmd8 \/ init_cmd55 \/ init_acmd41 \/ init_cmd58
           \/ init_cmd16 \/ read_cmd17 \/ write_cmd24
  <2>1. /\ Command /\ pc \notin {"response", "program"} /\ CardTypes
        /\ card.mode \notin {"sending", "taking"}
    BY <1>1, CommandSteps, Transferring
  <2>2. PICK cmd \in Commands : \E arg : \E a \in send_cmd(cmd, arg) : Answered(a)
    BY <2>1 DEF Command
  <2>3. PICK arg : \E a \in send_cmd(cmd, arg) : Answered(a)
    BY <2>2
  <2>4. PICK a \in send_cmd(cmd, arg) : Answered(a)
    BY <2>3
  <2>5. a.cost \in {0, 1}
    BY <2>1, <2>4, Costs
  <2>6. card'.mode = "busy" => card.mode = "busy"
    BY <2>1, <2>4, Replies, Ended DEF Answered
  <2> QED BY <2>1, <2>4, <2>5, <2>6 DEF WornInv, Worn, Answered
<1>2. ASSUME faults' = faults \/ faults' = faults + 1,
             \/ faults' = faults + 1 \/ card'.mode # "busy"
             \/ pc' \in {"response", "program"}
             \/ card.mode = "busy" /\ pc \notin {"response", "program"}
      PROVE  WornInv'
  BY <1>2 DEF WornInv, Worn
<1>3. CASE UNCHANGED vars
  BY <1>3 DEF WornInv, Worn, vars, driver, caller
<1>4. CASE Medium
  <2>1. card'.mode # "busy"
    BY <1>4 DEF Medium, Finish, Pull, Insert, SdInv, CardTypes, Sane, CardState
  <2> QED BY <1>2, <1>4, <2>1 DEF Medium, Finish, Pull, Insert
<1>5. CASE Caller
  <2>1. pc = "idle" /\ UNCHANGED <<card, faults>>
    BY <1>5 DEF Caller, disk_initialize, disk_read, disk_write, disk_ioctl,
       NextBlock, Start
  <2> QED BY <1>2, <2>1
<1>6. CASE init_speed \/ init_warmup \/ init_fast
  <2>1. /\ card' = card /\ pc \notin {"response", "program"}
        /\ faults' = faults \/ faults' = faults + 1
    BY <1>6 DEF init_speed, init_warmup, init_fast, op_set_speed, Fault, Goto, EndInit
  <2> QED BY <1>2, <2>1
<1>7. CASE init_echo \/ init_ocr \/ read_token \/ read_crc
  <2>1. /\ card' \in {card, Deselected(card)} /\ pc \notin {"response", "program"}
        /\ faults' = faults \/ faults' = faults + 1
    BY <1>7 DEF init_echo, init_ocr, read_r3_r7_tail, read_token, read_crc, Fault,
       Goto, Return
  <2>2. card'.mode = "busy" => card.mode = "busy"
    BY <2>1, Transferring, Ended
  <2> QED BY <1>2, <2>1, <2>2
<1>8. CASE read_data \/ write_wait \/ hk_sd_wait_ready
  <2>1. /\ card' \in {card, Deselected(card)} /\ pc \notin {"response", "program"}
        /\ faults' = faults \/ faults' = faults + 1
    BY <1>8 DEF read_data, write_wait, hk_sd_wait_ready, wait_not_busy, Fault,
       Goto, Return
  <2>2. card'.mode = "busy" => card.mode = "busy"
    BY <2>1, Transferring, Ended
  <2> QED BY <1>2, <2>1, <2>2
<1>9. CASE write_data
  <2>1. \/ faults' = faults + 1
        \/ pc' = "response" /\ faults' = faults
    BY <1>9 DEF write_data, Fault, Goto
  <2> QED BY <1>2, <2>1
<1>10. CASE write_response \/ write_program
  <2>1. \/ faults' = faults + 1
        \/ pc' = "program" /\ faults' = faults
        \/ card' = Deselected(card) /\ card.mode # "busy" /\ faults' = faults
    BY <1>10 DEF write_response, write_program, wait_not_busy, Fault, Goto, Return
  <2> QED BY <1>2, <2>1, Transferring, Ended
<1> QED
  BY <1>1, <1>3, <1>4, <1>5, <1>6, <1>7, <1>8, <1>9, <1>10
     DEF Next, Driver, hk_sd_init

\* A driver that takes the card for ready addresses it the way it wants, at the
\* data clock: hk_sd_init has seen this card through to its end, and no error
\* has come since (sd_spi.c:143-232, diskio_sd.c:29-70).  It stands answers that
\* are lost, and one with a wrong bit.  After a lost write such a bit makes a
\* card that is still programming look idle.
THEOREM ReadyHolds ==
  ASSUME Clear
  PROVE  Spec => []ReadyMatches
<1>1. SdInv => ReadyMatches
  <2> SUFFICES ASSUME SdInv, call = NoCall, sd.ready, card.here, card.mode # "off"
               PROVE  /\ fast /\ card.mode \in {"tran", "busy"}
                      /\ sd.sdhc <=> card.kind = "hc"
    BY DEF ReadyMatches
  <2>1. pc = "idle"
    <3>1. \A c \in Reads \cup Writes : c.op # "none"
      BY DEF Reads, Writes
    <3> QED BY <3>1 DEF SdInv, CallInv, NoCall
  <2>2. CardTypes /\ card.mode \notin {"sending", "taking"}
    BY <2>1 DEF SdInv, MatchInv
  <2>3. card.mode \in {"off", "idle", "tran", "busy"}
    BY <2>2, Modes
  <2> QED BY <2>3 DEF SdInv, MatchInv, Fits
<1>2. SdInv /\ WornInv /\ [Next]_vars => SdInv' /\ WornInv'
  BY SdNext, WornNext
<1>3. Init => SdInv /\ WornInv
  BY SdInit
<1> QED BY <1>1, <1>2, <1>3, PTL DEF Spec

-----------------------------------------------------------------------------
(* What FatFs takes the card for. *)

LEMMA WrittenNext ==
  ASSUME ~MosiNoise, SdInv, WrittenInv, [Next]_vars
  PROVE  WrittenInv'
<1>1. CASE UNCHANGED vars
  BY <1>1 DEF WrittenInv, vars, driver, caller
<1>2. CASE Finish
  <2>1. /\ card.mode = "busy" /\ card' = [card EXCEPT !.mode = "tran"]
        /\ mem' = [mem EXCEPT ![card.at] = card.new] /\ UNCHANGED <<pc, call>>
    BY <1>2 DEF Finish, driver, caller
  <2>2. card.at \in Block /\ card'.mode = "tran" /\ mem'[card.at] = card.new
    BY <2>1 DEF SdInv, CardTypes, Sane, CardState
  <2>3. pc = "program" => card.at = call.lba /\ card.new = call.data
    BY <2>1 DEF SdInv, TransferInv, WrittenInv
  <2> QED BY <2>1, <2>2, <2>3 DEF WrittenInv
<1>3. CASE Pull \/ Insert
  <2>1. card'.mode = "off"
    BY <1>3 DEF Pull, Insert, SdInv, CardTypes, Sane, CardState
  <2> QED BY <2>1 DEF WrittenInv
<1>4. ASSUME pc' \notin {"response", "program"} PROVE WrittenInv'
  BY <1>4 DEF WrittenInv
<1>5. CASE hk_sd_init
  <2>1. pc' \notin {"response", "program"}
    BY <1>5 DEF hk_sd_init, init_speed, init_warmup, init_cmd0, init_cmd8,
       init_echo, init_cmd55, init_acmd41, init_cmd58, init_ocr, init_cmd16,
       init_fast, op_set_speed, read_r3_r7_tail, To, EndBy, Goto, Return, EndInit
  <2> QED BY <1>4, <2>1
<1>6. CASE read_cmd17 \/ read_token \/ read_data \/ read_crc \/ write_wait
           \/ write_cmd24 \/ write_program \/ hk_sd_wait_ready
  <2>1. pc' \notin {"response", "program"}
    BY <1>6 DEF read_cmd17, read_token, read_data, read_crc, write_wait,
       write_cmd24, write_program, hk_sd_wait_ready, wait_not_busy, To, EndBy,
       Goto, Return
  <2> QED BY <1>4, <2>1
<1>7. CASE Caller
  <2>1. pc' \in {"speed", "cmd17", "wait", "flush"}
    BY <1>7, CallerCalls DEF Calls
  <2> QED BY <1>4, <2>1
<1>8. CASE write_data
  <2>1. pc = "block_out" /\ card.mode \in {"taking", "off", "tran"}
    BY <1>8 DEF write_data, SdInv, TransferInv
  <2>2. CASE \E c \in Taken : card.mode = "taking" /\ Goto("response", c)
    <3>1. PICK c \in Taken : card.mode = "taking" /\ Goto("response", c)
      BY <2>2
    <3>2. c.mode = "busy" /\ c.new = call.data
      BY <3>1, Takes
    <3> QED BY <3>1, <3>2 DEF Goto, caller, WrittenInv
  <2>3. CASE card.mode \in {"off", "tran"} /\ Goto("response", card)
    BY <2>3 DEF Goto, WrittenInv
  <2>4. CASE \E c : Return(Error, c)
    BY <2>4, <1>4 DEF Return
  <2> QED BY <1>8, <2>1, <2>2, <2>3, <2>4 DEF write_data
<1>9. CASE write_response
  <2>1. CASE card.mode = "busy" /\ Goto("program", card) /\ UNCHANGED mem
    BY <1>9, <2>1 DEF write_response, Goto, caller, WrittenInv
  <2>2. CASE Return(Error, card)
    BY <2>2, <1>4 DEF Return
  <2> QED BY <1>9, <2>1, <2>2 DEF write_response
<1> QED
  BY <1>1, <1>2, <1>3, <1>5, <1>6, <1>7, <1>8, <1>9 DEF Next, Medium, Driver

\* A write that has failed is loose as long as the card programs it.
LEMMA LooseWhile ==
  ASSUME SdInv, pc \notin {"response", "program"}, pc' \notin {"response", "program"},
         NEW c, c.mode = "busy" <=> card.mode = "busy", card.mode = "busy" => c = card,
         card' = c
  PROVE  loose' = loose
  BY DEF loose

LEMMA Called == ASSUME SdInv, pc # "idle" PROVE call # NoCall
<1>1. \A c \in Reads \cup Writes : c.op # "none"
  BY DEF Reads, Writes
<1> QED BY <1>1 DEF SdInv, CallInv, NoCall

\* A call that fails after a command, a wait or a read left the card to itself.
LEMMA FailQuiet ==
  ASSUME SdInv, pc # "idle", NEW c, Sane(c), Return(Error, c),
         UNCHANGED <<mem, stable>>,
         pc \notin {"response", "program"},
         c.mode = "busy" <=> card.mode = "busy", card.mode = "busy" => c = card
  PROVE  Store!Fail
<1>1. pc' = "idle" /\ card' = Deselected(c) /\ call' = NoCall /\ reply' = Error
  BY DEF Return
<1>2. /\ Deselected(c).mode = "busy" <=> card.mode = "busy"
      /\ card.mode = "busy" => Deselected(c) = card
  BY Ended
<1>3. loose' = loose
  BY <1>1, <1>2, LooseWhile
<1> QED BY <1>1, <1>3, Called DEF Store!Fail

\* One that fails while the card takes a block, or has taken it, leaves behind
\* a write that may yet be done.
LEMMA FailLoose ==
  ASSUME SdInv, pc \in {"block_out", "response", "program"}, NEW c, Sane(c),
         Return(Error, c), UNCHANGED <<mem, stable>>,
         c.mode = "busy" => c.at = call.lba /\ c.new = call.data,
         loose = {}
  PROVE  Store!Fail
<1>1. pc' = "idle" /\ card' = Deselected(c) /\ call' = NoCall /\ reply' = Error
  BY DEF Return
<1>2. call \in Writes /\ call.op = "write"
  <2>1. call \in Writes
    BY Transferring DEF WriteSteps
  <2> QED BY <2>1 DEF Writes
<1>3. loose' = {} \/ loose' = {<<call.lba, call.data>>}
  BY <1>1, Ended DEF loose
<1> QED BY <1>1, <1>2, <1>3, Called DEF Store!Fail

LEMMA StillGoing ==
  ASSUME SdInv, pc \notin {"response", "program"}, NEW p, NEW c, Goto(p, c),
         p \notin {"response", "program"}, UNCHANGED <<mem, stable>>,
         c.mode = "busy" <=> card.mode = "busy", card.mode = "busy" => c = card
  PROVE  UNCHANGED Store!store
<1>1. pc' = p /\ card' = c /\ UNCHANGED <<call, reply>>
  BY DEF Goto, caller
<1>2. loose' = loose
  BY <1>1, LooseWhile
<1> QED BY <1>1, <1>2 DEF Store!store

\* hk_sd_init writes nothing, and no command of it makes the card begin.
LEMMA StoreCommand ==
  ASSUME SdInv, pc \in InitSteps \cup {"cmd17", "cmd24"}, NEW cmd \in Commands,
         NEW arg, NEW a \in send_cmd(cmd, arg), UNCHANGED <<mem, stable>>
  PROVE  /\ EndBy(Error, a) => Store!Fail
         /\ \A p \in InitSteps \cup {"token", "block_out"} :
              To(p, a) => UNCHANGED Store!store
<1>1. pc \notin {"response", "program", "idle"}
      /\ card.mode \notin {"sending", "taking"} /\ CardTypes
  BY Transferring DEF InitSteps
<1>2. /\ Sane(a.card)
      /\ a.card.mode = "busy" <=> card.mode = "busy"
      /\ card.mode = "busy" => a.card = card
  BY <1>1, Replies
<1>3. EndBy(Error, a) => Store!Fail
  BY <1>1, <1>2, FailQuiet DEF EndBy
<1>4. ASSUME NEW p \in InitSteps \cup {"token", "block_out"}, To(p, a)
      PROVE  UNCHANGED Store!store
  <2>1. Goto(p, a.card) /\ p \notin {"response", "program"}
    BY <1>4 DEF To, InitSteps
  <2> QED BY <1>1, <1>2, <2>1, StillGoing
<1> QED BY <1>3, <1>4

LEMMA StoreInit == Init => Store!Init
  BY SdInit, SdAssumption DEF Init, Store!Init, SdInv, CardTypes, loose, NoCall, Ok

StoreStep == Store!Next \/ UNCHANGED Store!store

LEMMA StoreFails ==
  ASSUME SdInv, pc # "idle", pc \notin {"response", "program"},
         Return(Error, card), UNCHANGED <<mem, stable>>
  PROVE  Store!Fail
  BY Transferring, FailQuiet

LEMMA StoreHkInit == ASSUME SdInv, hk_sd_init PROVE StoreStep
<1>1. pc \in InitSteps /\ pc \notin {"idle", "response", "program"}
      /\ UNCHANGED <<mem, stable>> /\ ~sd.ready
  <2>1. pc \in InitSteps /\ UNCHANGED <<mem, stable>>
    BY DEF hk_sd_init, init_speed, init_warmup, init_cmd0, init_cmd8,
       init_echo, init_cmd55, init_acmd41, init_cmd58, init_ocr, init_cmd16,
       init_fast, InitSteps
  <2> QED BY <2>1, InitCommand DEF InitSteps
<1>2. \A p \in InitSteps : Goto(p, card) => UNCHANGED Store!store
  <2> SUFFICES ASSUME NEW p \in InitSteps, Goto(p, card)
               PROVE  UNCHANGED Store!store
    OBVIOUS
  <2>1. p \notin {"response", "program"}
    BY DEF InitSteps
  <2> QED BY <1>1, <2>1, StillGoing
<1>3. Return(Error, card) => Store!Fail
  BY <1>1, StoreFails
<1>4. ASSUME pc' = "idle", call' = NoCall, UNCHANGED card,
             \/ reply' = Error
             \/ reply' = Ok /\ call = [op |-> "init"]
      PROVE  StoreStep
  <2>1. loose' = loose /\ call # NoCall
    BY <1>1, <1>4, Called, LooseWhile
  <2>2. CASE reply' = Error
    BY <1>1, <1>4, <2>1, <2>2 DEF StoreStep, Store!Next, Store!Fail
  <2>3. CASE reply' = Ok /\ call = [op |-> "init"]
    <3>1. call.op = "init" /\ Ok # Error
      BY <2>3 DEF Ok, Error
    <3> QED BY <1>1, <1>4, <2>1, <2>3, <3>1 DEF StoreStep, Store!Next, Store!Succeed
  <2> QED BY <1>4, <2>2, <2>3
<1>5. call = [op |-> "init"]
  BY <1>1 DEF SdInv, CallInv, InitSteps, ReadSteps, WriteSteps
<1>6. {"warmup", "cmd0", "cmd8", "echo", "cmd55", "acmd41", "cmd58", "ocr",
       "cmd16", "fast"} \subseteq InitSteps /\ {0, 8, 16, 41, 55, 58} \subseteq Commands
  BY DEF InitSteps, Commands
<1>7. CASE init_speed \/ init_warmup \/ init_fast
  <2>1. CASE Goto("warmup", card)
    BY <1>2, <1>6, <2>1 DEF StoreStep
  <2>2. CASE pc' = "cmd0" /\ UNCHANGED <<card, caller>>
    <3>1. loose' = loose
      BY <1>1, <2>2, LooseWhile
    <3> QED BY <1>1, <2>2, <3>1 DEF StoreStep, Store!store, caller
  <2>3. CASE EndInit \/ init_fast
    BY <1>4, <1>5, <2>3 DEF EndInit, init_fast, op_set_speed
  <2> QED BY <1>7, <2>1, <2>2, <2>3 DEF init_speed, init_warmup, op_set_speed
<1>8. CASE init_echo \/ init_ocr
  <2>1. PICK p \in {"cmd55", "fast", "cmd16"} : Return(Error, card) \/ Goto(p, card)
    BY <1>8 DEF init_echo, init_ocr, read_r3_r7_tail
  <2> QED BY <1>2, <1>3, <1>6, <2>1 DEF StoreStep, Store!Next
<1>9. CASE \/ init_cmd0 \/ init_cmd8 \/ init_cmd55 \/ init_acmd41 \/ init_cmd58
           \/ init_cmd16
  <2>1. PICK cmd \in {0, 8, 16, 41, 55, 58}, arg \in {0, sd.v2}, p \in InitSteps :
          \E a \in send_cmd(cmd, arg) : EndBy(Error, a) \/ To(p, a)
    BY <1>6, <1>9 DEF init_cmd0, init_cmd8, init_cmd55, init_acmd41, init_cmd58,
       init_cmd16
  <2> QED BY <1>1, <1>6, <2>1, StoreCommand DEF StoreStep, Store!Next
<1> QED BY <1>7, <1>8, <1>9 DEF hk_sd_init

LEMMA StoreRead ==
  ASSUME SdInv, read_cmd17 \/ read_token \/ read_data \/ read_crc
  PROVE  StoreStep
<1>1. /\ pc \in ReadSteps /\ pc \notin {"idle", "response", "program"}
      /\ UNCHANGED <<mem, stable>>
  BY DEF read_cmd17, read_token, read_data, read_crc, ReadSteps
<1>2. call \in Reads /\ call.op = "read"
  <2>1. call \in Reads
    BY <1>1, Transferring
  <2> QED BY <2>1 DEF Reads
<1>3. Return(Error, card) => StoreStep
  BY <1>1, StoreFails DEF StoreStep, Store!Next
<1>4. CASE read_cmd17
  <2>1. PICK a \in send_cmd(17, block_addr(call.lba)) :
          EndBy(Error, a) \/ To("token", a)
    BY <1>4 DEF read_cmd17
  <2>2. pc = "cmd17" /\ 17 \in Commands
    BY <1>4 DEF read_cmd17, Commands
  <2> QED BY <1>1, <2>1, <2>2, StoreCommand DEF StoreStep, Store!Next
<1>5. CASE read_token
  <2>1. Goto("block_in", card) => UNCHANGED Store!store
    BY <1>1, StillGoing
  <2> QED BY <1>3, <1>5, <2>1 DEF read_token, StoreStep
<1>6. CASE read_data
  <2>1. CASE pc' = "crc" /\ UNCHANGED <<card, call, reply>>
    <3>1. loose' = loose
      BY <1>1, <2>1, LooseWhile
    <3> QED BY <1>1, <2>1, <3>1 DEF StoreStep, Store!store
  <2> QED BY <1>3, <1>6, <2>1 DEF read_data
<1>7. CASE read_crc
  <2>1. /\ pc = "crc" /\ pc' = "idle" /\ card' = Deselected(card)
        /\ call' = NoCall /\ reply' = got
    BY <1>7 DEF read_crc, Return
  <2>2. loose' = loose
    <3>1. /\ Deselected(card).mode = "busy" <=> card.mode = "busy"
          /\ card.mode = "busy" => Deselected(card) = card
      BY Transferring, Ended
    <3> QED BY <1>1, <2>1, <3>1, LooseWhile
  <2>3. got # Error
    BY SdAssumption DEF SdInv, CardTypes, Data, Foul, Error
  <2>4. stable => reply' = mem[call.lba]
    BY <2>1 DEF SdInv, TransferInv
  <2> QED
    BY <1>1, <1>2, <2>1, <2>2, <2>3, <2>4, Called DEF StoreStep, Store!Next, Store!Succeed
<1> QED BY <1>4, <1>5, <1>6, <1>7

LEMMA StoreWrite ==
  ASSUME ~MosiNoise, SdInv, WrittenInv,
         \/ write_wait \/ write_cmd24 \/ write_data \/ write_response
         \/ write_program \/ hk_sd_wait_ready
  PROVE  StoreStep
<1>1. UNCHANGED <<mem, stable>>
  BY DEF write_wait, write_cmd24, write_data, write_response, write_program,
     hk_sd_wait_ready, wait_not_busy
<1>3. CASE write_wait
  <2>1. pc = "wait" /\ (Goto("cmd24", card) \/ Return(Error, card))
    BY <1>3 DEF write_wait, wait_not_busy
  <2> QED BY <1>1, <2>1, StillGoing, StoreFails DEF StoreStep, Store!Next
<1>4. CASE write_cmd24
  <2>1. PICK a \in send_cmd(24, block_addr(call.lba)) :
          EndBy(Error, a) \/ To("block_out", a)
    BY <1>4 DEF write_cmd24
  <2>2. pc = "cmd24" /\ 24 \in Commands
    BY <1>4 DEF write_cmd24, Commands
  <2> QED BY <1>1, <2>1, <2>2, StoreCommand DEF StoreStep, Store!Next
<1>5. CASE write_data
  <2>1. pc = "block_out" /\ card.mode \in {"taking", "off", "tran"} /\ Sane(card)
    BY <1>5, Transferring DEF write_data, SdInv, TransferInv
  <2>2. loose = {}
    BY <2>1 DEF loose
  <2>3. PICK c : /\ c = card \/ (card.mode = "taking" /\ c \in Taken)
                 /\ Goto("response", c) \/ Return(Error, c)
    BY <1>5 DEF write_data
  <2>4. Sane(c) /\ (c.mode = "busy" => c.at = call.lba /\ c.new = call.data)
    BY <2>1, <2>3, Takes
  <2>5. CASE Goto("response", c)
    BY <1>1, <2>2, <2>5 DEF Goto, caller, loose, StoreStep, Store!store
  <2>6. CASE Return(Error, c)
    BY <1>1, <2>1, <2>2, <2>4, <2>6, FailLoose DEF StoreStep, Store!Next
  <2> QED BY <2>3, <2>5, <2>6
<1>6. CASE write_response
  <2>1. pc = "response" /\ loose = {}
    BY <1>6 DEF write_response, loose
  <2>2. CASE Goto("program", card)
    BY <1>1, <2>1, <2>2 DEF Goto, caller, loose, StoreStep, Store!store
  <2>3. CASE Return(Error, card)
    <3>1. card.mode = "busy" => card.at = call.lba /\ card.new = call.data
      BY <2>1 DEF SdInv, TransferInv, WrittenInv
    <3> QED BY <1>1, <2>1, <2>3, <3>1, Transferring, FailLoose DEF StoreStep, Store!Next
  <2> QED BY <1>6, <2>2, <2>3 DEF write_response
<1>7. CASE write_program
  <2>1. pc = "program" /\ loose = {} /\ pc \in WriteSteps
    BY <1>7 DEF write_program, wait_not_busy, loose, WriteSteps
  <2>2. CASE card.mode # "busy" /\ Return(Ok, card)
    <3>1. pc' = "idle" /\ call' = NoCall /\ reply' = Ok /\ card' = Deselected(card)
      BY <2>2 DEF Return
    <3>2. loose' = {}
      BY <2>2, <3>1, Transferring, Ended DEF loose
    <3>3. call \in Writes /\ call.op = "write"
      <4>1. call \in Writes
        BY <2>1, Transferring
      <4> QED BY <4>1 DEF Writes
    <3>4. stable => mem[call.lba] = call.data
      BY <2>1, <2>2 DEF SdInv, TransferInv, WrittenInv
    <3>5. Ok # Error
      BY DEF Ok, Error
    <3> QED
      BY <1>1, <2>1, <3>1, <3>2, <3>3, <3>4, <3>5, Called
         DEF StoreStep, Store!Next, Store!Succeed
  <2>3. CASE Return(Error, card)
    <3>1. card.mode = "busy" => card.at = call.lba /\ card.new = call.data
      BY <2>1 DEF SdInv, TransferInv, WrittenInv
    <3> QED BY <1>1, <2>1, <2>3, <3>1, Transferring, FailLoose DEF StoreStep, Store!Next
  <2> QED BY <1>7, <2>2, <2>3 DEF write_program, wait_not_busy
<1>8. CASE hk_sd_wait_ready
  <2>1. pc = "flush"
    BY <1>8 DEF hk_sd_wait_ready, wait_not_busy
  <2>2. CASE card.mode # "busy" /\ Return(Ok, card)
    <3>1. pc' = "idle" /\ call' = NoCall /\ reply' = Ok /\ card' = Deselected(card)
      BY <2>2 DEF Return
    <3>2. loose' = {} /\ loose = {}
      BY <2>2, <3>1, Transferring, Ended DEF loose
    <3>3. call = [op |-> "sync"] /\ call.op = "sync" /\ Ok # Error
      BY <2>1 DEF SdInv, CallInv, InitSteps, ReadSteps, WriteSteps, Ok, Error
    <3> QED
      BY <1>1, <2>1, <3>1, <3>2, <3>3, Called DEF StoreStep, Store!Next, Store!Succeed
  <2>3. CASE Return(Error, card)
    BY <1>1, <2>1, <2>3, StoreFails DEF StoreStep, Store!Next
  <2> QED BY <1>8, <2>2, <2>3 DEF hk_sd_wait_ready, wait_not_busy
<1> QED BY <1>3, <1>4, <1>5, <1>6, <1>7, <1>8

LEMMA StoreMedium ==
  ASSUME SdInv, WrittenInv, SdInv', Medium
  PROVE  StoreStep
<1>1. CASE Finish
  <2>1. /\ card.mode = "busy" /\ pc # "response" /\ pc' = pc
        /\ card' = [card EXCEPT !.mode = "tran"]
        /\ mem' = [mem EXCEPT ![card.at] = card.new]
        /\ UNCHANGED <<call, stable, reply>>
    BY <1>1 DEF Finish, driver, caller
  <2>2. card'.mode = "tran"
    BY <2>1 DEF SdInv, CardTypes, Sane, CardState
  <2>3. loose' = {}
    BY <2>2 DEF loose
  <2>4. CASE pc = "program"
    <3>1. call \in Writes /\ call # NoCall
      BY <2>4, Transferring, Called DEF WriteSteps
    <3>2. call.op = "write"
      BY <3>1 DEF Writes
    <3>3. stable /\ card.at = call.lba /\ card.new = call.data
      BY <2>1, <2>4 DEF SdInv, TransferInv, WrittenInv, ReadSteps, WriteSteps
    <3>4. loose = {}
      BY <2>4 DEF loose
    <3> QED
      BY <2>1, <2>3, <3>1, <3>2, <3>3, <3>4 DEF StoreStep, Store!Next, Store!Effect
  <2>5. CASE pc # "program"
    <3> DEFINE w == <<card.at, card.new>>
    <3>1. loose = {w}
      BY <2>1, <2>5 DEF loose
    <3>2. w \in loose /\ loose' = loose \ {w} /\ mem' = [mem EXCEPT ![w[1]] = w[2]]
      BY <2>1, <2>3, <3>1
    <3> QED BY <2>1, <3>2 DEF StoreStep, Store!Next, Store!Settle
  <2> QED BY <2>4, <2>5
<1>2. CASE Pull \/ Insert
  <2>1. stable' = FALSE /\ UNCHANGED <<call, reply>> /\ card'.mode = "off"
    BY <1>2 DEF Pull, Insert, driver, caller, SdInv, CardTypes, Sane, CardState
  <2>2. loose' = {} /\ mem' \in [Block -> Data]
    BY <2>1 DEF loose, SdInv, CardTypes
  <2> QED BY <2>1, <2>2 DEF StoreStep, Store!Next, Store!Change
<1> QED BY <1>1, <1>2 DEF Medium

LEMMA StoreCaller == ASSUME SdInv, Caller PROVE StoreStep
<1>1. /\ pc = "idle" /\ stable' = TRUE /\ UNCHANGED <<card, mem, reply>>
  BY DEF Caller, disk_initialize, disk_read, disk_write, disk_ioctl, NextBlock, Start
<1>2. call = NoCall
  BY <1>1 DEF SdInv, CallInv, InitSteps, ReadSteps, WriteSteps
<1>3. call' # NoCall /\ pc' \notin {"response", "program"}
  <2>1. \A c \in Reads \cup Writes : c.op # "none"
    BY DEF Reads, Writes
  <2> QED BY <2>1, CallerCalls DEF Calls, NoCall
<1>4. loose' = loose
  BY <1>1, <1>3, LooseWhile
<1> QED BY <1>1, <1>2, <1>3, <1>4 DEF StoreStep, Store!Next, Store!Begin

LEMMA StoreNext ==
  ASSUME Clear, ~MosiNoise, SdInv, WornInv, WrittenInv, [Next]_vars
  PROVE  [Store!Next]_(Store!store)
<1>1. SdInv'
  BY SdNext
<1>2. CASE UNCHANGED vars
  BY <1>2 DEF vars, driver, caller, Store!store, loose
<1>3. StoreStep => [Store!Next]_(Store!store)
  BY DEF StoreStep
<1> QED
  BY <1>1, <1>2, <1>3, StoreHkInit, StoreRead, StoreWrite, StoreMedium, StoreCaller
     DEF Next, Driver

\* Over a line that may lose whatever it carries, and fail when it likes, or
\* change one bit of an answer, FatFs has a disk: the driver and whichever card
\* is in the slot implement BlockStore (sd_spi.c:234-344, diskio_sd.c:29-103).
THEOREM SdServesFat ==
  ASSUME Clear, ~MosiNoise
  PROVE  Spec => ImplementsBlockStore
<1> DEFINE Inv == SdInv /\ WornInv /\ WrittenInv
<1>1. Init => Store!Init /\ Inv
  BY StoreInit, SdInit
<1>2. Inv /\ [Next]_vars => Inv'
  BY SdNext, WornNext, WrittenNext
<1>3. Inv /\ [Next]_vars => [Store!Next]_(Store!store)
  BY StoreNext
<1> HIDE DEF Inv
<1> QED BY <1>1, <1>2, <1>3, PTL DEF Spec, ImplementsBlockStore, Store!Spec
=============================================================================
