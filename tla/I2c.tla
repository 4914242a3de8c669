------------------------------- MODULE I2c --------------------------------
(***************************************************************************)
(* The bit-banged I2C master of App/bus/i2c_sw.c and the bus clearing      *)
(* op_recover of App/bus/i2c_hw.c, line change by line change, with a      *)
(* slave that may stretch the clock, and a reset of the MCU at any of      *)
(* them: the reset lets go of both lines, and leaves the slave where it    *)
(* was in its byte.                                                        *)
(*                                                                         *)
(* An operation is a sequence of calls of the primitives, a primitive the  *)
(* sequence of its line changes and samples, some of them in a loop; a     *)
(* step executes one of these.  A byte has Bits bits, 8 on a real bus, the *)
(* last of an address byte telling a read.  The slave (NXP UM10204) is     *)
(* external; for op_recover the transfers stand for those of the STM32     *)
(* peripheral.                                                             *)
(***************************************************************************)
EXTENDS Integers, Sequences

CONSTANTS
  Bits,          \* bits of a byte
  Address,       \* the slave's address: bits
  Words,         \* bytes that the slave may hold
  Writes,        \* what callers write: sequences of bytes
  MaxRead,       \* bytes of a read
  MaxResets, MaxStretches   \* bounds: resets of the MCU, clock stretches

Bit  == {0, 1}
Byte == [1 .. Bits -> Bit]

ASSUME I2cAssumption ==
  /\ Bits \in Nat \ {0, 1} /\ MaxRead \in Nat \ {0}
  /\ Address \in [1 .. Bits - 1 -> Bit]
  /\ Words \subseteq Byte /\ Writes \subseteq Seq(Byte)
  /\ {MaxResets, MaxStretches} \subseteq Nat

VARIABLES
  m_scl, m_sda,   \* what the master drives: 0, or 1 for released
  slave,          \* [mode, bits, out, drive, heard]
  stretch,        \* the slave holds SCL low
  reg,            \* the byte the slave sends
  op, status,     \* the operation, and what it will return
  call,           \* the place of the primitive it is in among its calls
  line, round,    \* the next line of that primitive, and the round of its loop
  b, rx,          \* bits of the byte being read, and the bytes read
  from,           \* the mode of the slave when the operation began
  resets, stretches

place  == <<call, line, round>>
master == <<op, status, place, b, rx, from>>
lines  == <<m_scl, m_sda>>
vars   == <<lines, slave, stretch, reg, master, resets, stretches>>

Both(x, y) == IF x = 1 /\ y = 1 THEN 1 ELSE 0
scl == Both(m_scl, IF stretch THEN 0 ELSE 1)
sda == Both(m_sda, slave.drive)

-----------------------------------------------------------------------------
(* The slave: what it does at an edge of the lines. *)

\* Not addressed; what it heard in the operation is kept until this returns.
Free(h) == [mode |-> "idle", bits |-> << >>, out |-> 0, drive |-> 1,
            heard |-> h]

\* The bits it sends are those of reg; out of them are left.
Sending(s) == [s EXCEPT !.mode = "send", !.drive = reg[1], !.out = Bits - 1]

\* SCL falls: the slave shifts, or answers the byte it has.
Fallen(s) ==
  CASE s.mode = "addr" /\ Len(s.bits) = Bits ->
         IF SubSeq(s.bits, 1, Bits - 1) = Address
         THEN [s EXCEPT !.mode = IF s.bits[Bits] = 1 THEN "ack_r" ELSE "ack_w",
                        !.bits = << >>, !.drive = 0]
         ELSE Free(s.heard)
    [] s.mode = "recv" /\ Len(s.bits) = Bits ->
         [s EXCEPT !.mode = "ack_w", !.bits = << >>, !.drive = 0,
                   !.heard = Append(s.heard, s.bits)]
    [] s.mode = "ack_w" -> [s EXCEPT !.mode = "recv", !.drive = 1]
    [] s.mode = "ack_r" -> Sending(s)
    [] s.mode = "send"  -> IF s.out = 0
                           THEN [s EXCEPT !.mode = "mack", !.drive = 1]
                           ELSE [s EXCEPT !.drive = reg[Bits - s.out + 1],
                                          !.out = s.out - 1]
    [] s.mode = "more"  -> Sending(s)
    [] OTHER -> s

\* SCL rises: the slave samples SDA.
Risen(s, d) ==
  CASE s.mode \in {"addr", "recv"} -> [s EXCEPT !.bits = Append(s.bits, d)]
    [] s.mode = "mack" -> IF d = 0 THEN [s EXCEPT !.mode = "more"] ELSE Free(s.heard)
    [] OTHER -> s

\* SDA changes while SCL is high: START or STOP.
Started(s) == [Free(s.heard) EXCEPT !.mode = "addr"]

\* The slave after the lines went from <<c, d>> to <<c1, d1>>.
React(s, c, d, c1, d1) ==
  CASE c = 1 /\ c1 = 0 -> Fallen(s)
    [] c = 0 /\ c1 = 1 -> Risen(s, d1)
    [] c = 1 /\ c1 = 1 /\ d = 1 /\ d1 = 0 -> Started(s)
    [] c = 1 /\ c1 = 1 /\ d = 0 /\ d1 = 1 -> Free(s.heard)
    [] OTHER -> s

Active == slave.mode # "idle"

\* The master drives c and d; a slave in a transfer may stretch a low clock, if
\* by less than the millisecond that op_recover holds each level.
Drive(c, d) ==
  /\ m_scl' = c /\ m_sda' = d
  /\ slave' = React(slave, scl, sda, Both(c, IF stretch THEN 0 ELSE 1),
                    Both(d, slave.drive))
  /\ \/ UNCHANGED <<stretch, stretches>>
     \/ /\ scl = 1 /\ c = 0 /\ Active /\ op.name # "recover"
        /\ stretches < MaxStretches
        /\ stretch' = TRUE /\ stretches' = stretches + 1

Unstretch ==
  /\ stretch /\ stretch' = FALSE
  /\ slave' = React(slave, scl, sda, m_scl, sda)
  /\ UNCHANGED <<lines, reg, master, resets, stretches>>

-----------------------------------------------------------------------------
(* The primitives, line by line; "wait" is the rest of scl_release_wait.   *)

i2c_start == <<"sda_release", "scl_release", "wait", "sda_low", "scl_low">>

\* Mutant: SDA is raised before SCL.
StopTooEarly == <<"sda_low", "sda_release", "scl_release", "wait">>

i2c_stop == <<"sda_low", "scl_release", "wait", "sda_release">>

i2c_write_byte ==
  <<"sda_bit", "scl_release", "wait", "scl_low",
    "sda_release", "scl_release", "wait", "read_ack", "scl_low">>

i2c_read_byte ==
  <<"sda_release", "scl_release", "wait", "read_bit", "scl_low",
    "sda_ack", "scl_release", "wait", "scl_low", "sda_release">>

\* The pins become outputs, which pull low until they are set; the pulses; and
\* the line changes meant as a STOP.
op_recover ==
  <<"scl_low", "sda_low", "sda_release", "scl_low", "scl_release",
    "sda_low", "scl_release", "sda_release">>

Code(primitive) ==
  CASE primitive = "start"   -> i2c_start
    [] primitive = "stop"    -> i2c_stop
    [] primitive = "write"   -> i2c_write_byte
    [] primitive = "read"    -> i2c_read_byte
    [] primitive = "recover" -> op_recover

\* Mutant: one pulse fewer.
OnePulseFewer == Bits

Pulses == Bits + 1   \* one more than the bits of a byte: 9

\* The lines that are a loop, and its rounds.
Loop(primitive) ==
  CASE primitive = "write"   -> [first |-> 1, last |-> 4, rounds |-> Bits]
    [] primitive = "read"    -> [first |-> 2, last |-> 5, rounds |-> Bits]
    [] primitive = "recover" -> [first |-> 4, last |-> 5, rounds |-> Pulses]
    [] OTHER                 -> [first |-> 1, last |-> 1, rounds |-> 1]

-----------------------------------------------------------------------------
(* The operations of the bus: their calls. *)

Plain(primitive) == [do |-> primitive, byte |-> << >>, ack |-> FALSE]
WriteByte(w)     == [do |-> "write", byte |-> w, ack |-> FALSE]
ReadByte(ack)    == [do |-> "read", byte |-> << >>, ack |-> ack]

Start == Plain("start")
Stop  == Plain("stop")

To(rw)     == WriteByte(Append(Address, rw))
Bytes(ws)  == [i \in 1 .. Len(ws) |-> WriteByte(ws[i])]
\* Mutant: the last byte but one is not acknowledged either.
ReadingCutShort(n) == [i \in 1 .. n |-> ReadByte(i + 1 < n)]

Reading(n) == [i \in 1 .. n |-> ReadByte(i < n)]

Transfer(name, ws, n) == [name |-> name, ws |-> ws, n |-> n]
None == Transfer("none", << >>, 0)

Calls ==
  CASE op.name = "probe"      -> <<Start, To(0), Stop>>
    [] op.name = "write"      -> <<Start, To(0)>> \o Bytes(op.ws) \o <<Stop>>
    [] op.name = "read"       -> <<Start, To(1)>> \o Reading(op.n) \o <<Stop>>
    [] op.name = "write_read" -> <<Start, To(0)>> \o Bytes(op.ws)
                                   \o <<Start, To(1)>> \o Reading(op.n)
                                   \o <<Stop>>
    [] op.name = "recover"    -> <<Plain("recover")>>
    [] OTHER                  -> << >>

Running   == call <= Len(Calls)
Primitive == Calls[call].do
next      == Code(Primitive)[line]

\* The ways on from a line: in the primitive, and out of it.
Leave(c) == call' = c /\ line' = 1 /\ round' = 1 /\ b' = << >>

\* An address or byte that is not acknowledged ends in the STOP.
Abandon == Leave(Len(Calls)) /\ UNCHANGED rx

EndCall ==
  IF Primitive = "write" /\ status = "nack" THEN Abandon
  ELSE /\ Leave(call + 1)
       /\ rx' = IF Primitive = "read" THEN Append(rx, b) ELSE rx

Advance ==
  LET loop == Loop(Primitive)
  IN /\ IF line = loop.last /\ round < loop.rounds
        THEN line' = loop.first /\ round' = round + 1
        ELSE line' = line + 1 /\ UNCHANGED round
     /\ UNCHANGED <<call, rx>>

Proceed == IF line = Len(Code(Primitive)) THEN EndCall ELSE Advance /\ UNCHANGED b

Done(name) == op.name = name /\ ~Running

-----------------------------------------------------------------------------
(* The steps. *)

Begin(o) ==
  /\ op = None
  /\ op' = o /\ from' = slave.mode
  /\ UNCHANGED <<lines, slave, stretch, reg, status, place, b, rx, resets,
                 stretches>>

Operate ==
  \/ Begin(Transfer("probe", << >>, 0))
  \/ \E ws \in Writes : Begin(Transfer("write", ws, 0))
  \/ \E n \in 1 .. MaxRead :
       \/ Begin(Transfer("read", << >>, n))
       \/ \E ws \in Writes : Begin(Transfer("write_read", ws, n))

\* At boot, when no device has answered: before the scheduler, so alone.
Recover == /\ resets > 0 /\ Active /\ ~stretch
           /\ Begin(Transfer("recover", << >>, 0))

SetLine ==
  /\ Running
  /\ \/ next = "sda_release" /\ Drive(m_scl, 1)
     \/ next = "sda_low"     /\ Drive(m_scl, 0)
     \/ next = "sda_bit"     /\ Drive(m_scl, Calls[call].byte[round])
     \/ next = "sda_ack"     /\ Drive(m_scl, IF Calls[call].ack THEN 0 ELSE 1)
     \/ next = "scl_release" /\ Drive(1, m_sda)
     \/ next = "scl_low"     /\ Drive(0, m_sda)
  /\ Proceed
  /\ UNCHANGED <<reg, op, status, from, resets>>

\* SCL is high, or the wait for it was given up.  The code then goes on and
\* returns HK_OK (a byte being read lacks bits): "held" tells the two apart.
AwaitScl ==
  /\ Running /\ next = "wait"
  /\ \/ scl = 1 /\ Proceed /\ UNCHANGED status
     \/ scl = 0 /\ Primitive = "write" /\ status' = "nack" /\ Abandon
     \/ /\ scl = 0 /\ Primitive # "write"
        /\ status' = IF status = "ok" THEN "held" ELSE status
        /\ IF Primitive = "read" /\ line = 3 THEN EndCall ELSE Proceed
  /\ UNCHANGED <<lines, slave, stretch, reg, op, from, resets, stretches>>

ReadSda ==
  /\ Running
  /\ \/ next = "read_bit" /\ b' = Append(b, sda) /\ UNCHANGED status
     \/ /\ next = "read_ack" /\ UNCHANGED b
        /\ status' = IF sda = 0 THEN status ELSE "nack"
  /\ Advance
  /\ UNCHANGED <<lines, slave, stretch, reg, op, from, resets, stretches>>

Return ==
  /\ op # None /\ ~Running
  /\ op' = None /\ call' = 1 /\ rx' = << >> /\ from' = "idle" /\ status' = "ok"
  /\ slave' = [slave EXCEPT !.heard = << >>]
  /\ UNCHANGED <<lines, stretch, reg, line, round, b, resets, stretches>>

\* The watchdog resets the MCU: its pins let go of the lines, one just before
\* the other, and hk_i2c_sw_init leaves them so.
Reset ==
  /\ resets < MaxResets /\ resets' = resets + 1
  /\ m_scl' = 1 /\ m_sda' = 1
  /\ LET c == IF stretch THEN 0 ELSE 1
         d == slave.drive
         s == [slave EXCEPT !.heard = << >>]
     IN slave' \in {React(React(s, scl, sda, c, sda), c, sda, c, d),
                    React(React(s, scl, sda, scl, d), scl, d, c, d)}
  /\ op' = None /\ call' = 1 /\ line' = 1 /\ round' = 1
  /\ b' = << >> /\ rx' = << >> /\ from' = "idle" /\ status' = "ok"
  /\ UNCHANGED <<stretch, reg, stretches>>

-----------------------------------------------------------------------------
Init ==
  /\ m_scl = 1 /\ m_sda = 1
  /\ slave = Free(<< >>) /\ stretch = FALSE /\ reg \in Words
  /\ op = None /\ status = "ok" /\ from = "idle"
  /\ call = 1 /\ line = 1 /\ round = 1 /\ b = << >> /\ rx = << >>
  /\ resets = 0 /\ stretches = 0

Run == SetLine \/ AwaitScl \/ ReadSda \/ Return

Next == Operate \/ Recover \/ Run \/ Unstretch \/ Reset

Spec == Init /\ [][Next]_vars

\* Operations go on, and a task makes them again and again; a slave lets go of
\* the clock.
FairSpec == Spec /\ WF_vars(Run) /\ WF_vars(Operate) /\ WF_vars(Unstretch)

-----------------------------------------------------------------------------
(* Properties. *)

\* An operation begun on a free bus that returned HK_OK and found no clock held
\* too long has moved exactly its bytes: what was written is what the slave
\* heard, what was read is what it sent (i2c_sw.c:130-184).
Delivered ==
  from = "idle" /\ status = "ok" =>
    /\ Done("write") \/ Done("write_read") => slave.heard = op.ws
    /\ Done("read") \/ Done("write_read") => rx = [i \in 1 .. op.n |-> reg]

BusFree == slave.mode = "idle" /\ scl = 1 /\ sda = 1

\* op_recover frees a slave that a reset has left sending.
RecoverFreesReader ==
  Done("recover") /\ from \in {"ack_r", "send", "mack", "more"} => BusFree

\* op_recover frees a slave that a reset has left mid-byte, whichever way the
\* byte was going (i2c_hw.c:110-111).
RecoverFrees == Done("recover") => BusFree

\* The software bus has no recover, and needs none: the operations themselves
\* free it in the end from whatever a reset has left it in (i2c_sw.c:222).
Freed == []<>(BusFree \/ op.name = "recover")
=============================================================================
