----------------------------- MODULE I2cProofs -----------------------------
(***************************************************************************)
(* Theorems about I2c, for bytes of any length, every address, whatever is *)
(* written and read, and any number of resets and clock stretches.  The    *)
(* invariant says for each line of each primitive where in its byte the    *)
(* slave is then: master and slave keep count of the bits alike.           *)
(***************************************************************************)
EXTENDS I2c, SequenceTheorems, TLAPS

Modes   == {"idle", "addr", "recv", "ack_w", "ack_r", "send", "mack", "more"}
Readers == {"ack_r", "send", "mack", "more"}

TransferNames == {"probe", "write", "read", "write_read"}

Transfers ==
  {o \in [name : TransferNames, ws : Seq(Byte), n : Nat] :
     /\ o.name = "probe" => o.ws = << >> /\ o.n = 0
     /\ o.name = "write" => o.n = 0
     /\ o.name = "read" => o.ws = << >> /\ o.n > 0
     /\ o.name = "write_read" => o.n > 0}

Recovery == Transfer("recover", << >>, 0)

SlaveRecord ==
  [mode : Modes, bits : Seq(Bit), out : 0 .. Bits - 1, drive : Bit, heard : Seq(Seq(Bit))]

Slaves == {s \in SlaveRecord : s.mode \in {"idle", "mack"} => s.drive = 1}

TypeInv ==
  /\ slave \in Slaves
  /\ m_scl \in Bit /\ m_sda \in Bit /\ stretch \in BOOLEAN /\ reg \in Byte
  /\ op \in Transfers \cup {None, Recovery}
  /\ status \in {"ok", "held", "nack"}
  /\ b \in Seq(Bit) /\ rx \in Seq(Seq(Bit))
  /\ from \in Modes

\* The place in an operation, and both lines let go when there is none.
PlaceInv ==
  /\ op = None => slave.heard = << >> /\ status = "ok" /\ rx = << >>
  /\ IF Running
     THEN /\ call \in 1 .. Len(Calls)
          /\ line \in 1 .. Len(Code(Primitive))
          /\ round \in 1 .. Loop(Primitive).rounds
          /\ line < Loop(Primitive).first => round = 1
          /\ line > Loop(Primitive).last => round = Loop(Primitive).rounds
          /\ line = 1 /\ round = 1 => b = << >>
          /\ Primitive = "stop" /\ line \in {3, 4} => m_scl = 1
          /\ Primitive = "recover" /\ line \in {6, 7, 8} => m_scl = 1
     ELSE /\ call = Len(Calls) + 1 /\ line = 1 /\ round = 1 /\ b = << >>
          /\ m_scl = 1 /\ m_sda = 1

-----------------------------------------------------------------------------
(* A transfer begun on a free bus, in which no clock was held too long. *)

Sound == op \in Transfers /\ from = "idle" /\ status = "ok"

\* Bytes written and read before call c.
HeardAt(o, c) == IF c <= 3 THEN 0
                 ELSE IF c <= Len(o.ws) + 3 THEN c - 3 ELSE Len(o.ws)
FirstRead(o) == IF o.name = "read" THEN 3 ELSE Len(o.ws) + 5
RxAt(o, c) == IF c <= FirstRead(o) THEN 0
              ELSE IF c <= FirstRead(o) + o.n THEN c - FirstRead(o) ELSE o.n

First(w, k) == [i \in 1 .. k |-> w[i]]
Copies(r, k) == [i \in 1 .. k |-> r]

Addressing == Calls[call - 1].do = "start"

InStart ==
  /\ slave.heard = First(op.ws, HeardAt(op, call))
  /\ IF line = 5
     THEN /\ slave.mode = "addr" /\ slave.bits = << >> /\ slave.drive = 1
          /\ m_scl = 1 /\ m_sda = 0 /\ ~stretch
     ELSE /\ slave.mode \in {"idle", "recv"} /\ slave.drive = 1 /\ m_sda = 1
          /\ line \in {3, 4} => m_scl = 1
          /\ line = 4 => ~stretch

InWrite ==
  LET w    == Calls[call].byte
      mode == IF Addressing THEN "addr" ELSE "recv"
      ack  == IF Addressing /\ w[Bits] = 1 THEN "ack_r" ELSE "ack_w"
  IN /\ IF line <= 4
        THEN /\ slave.heard = First(op.ws, HeardAt(op, call))
             /\ slave.mode = mode /\ slave.drive = 1
             /\ slave.bits = First(w, IF line <= 2 \/ (line = 3 /\ stretch)
                                      THEN round - 1 ELSE round)
        ELSE /\ slave.heard = First(op.ws, HeardAt(op, call + 1))
             /\ slave.mode = ack /\ slave.drive = 0 /\ slave.bits = << >>
     /\ m_scl = IF line \in {1, 2, 5, 6} THEN 0 ELSE 1
     /\ line \in {2, 3, 4} => m_sda = w[round]
     /\ line >= 6 => m_sda = 1
     /\ line \in {4, 8, 9} => ~stretch

InRead ==
  LET ack == Calls[call].ack
  IN /\ slave.heard = First(op.ws, HeardAt(op, call))
     /\ slave.bits = << >>
     /\ b = First(reg, IF line <= 4 THEN round - 1 ELSE IF line = 5 THEN round ELSE Bits)
     /\ CASE line <= 5 -> /\ slave.mode = "send" /\ slave.drive = reg[round]
                          /\ slave.out = Bits - round /\ m_sda = 1
          [] line \in {6, 7} \/ (line = 8 /\ stretch) -> slave.mode = "mack"
          [] line = 9 \/ (line = 8 /\ ~stretch) ->
               slave.mode = (IF ack THEN "more" ELSE "idle") /\ slave.drive = 1
          [] line = 10 -> IF ack THEN /\ slave.mode = "send" /\ slave.drive = reg[1]
                                      /\ slave.out = Bits - 1
                          ELSE slave.mode = "idle"
     /\ m_scl = IF line \in {1, 2, 6, 7, 10} THEN 0 ELSE 1
     /\ line \in {7, 8, 9} => m_sda = (IF ack THEN 0 ELSE 1)
     /\ line \in {4, 5, 9} => ~stretch

InStop ==
  /\ slave.heard = op.ws
  /\ slave.mode \in {"idle", "recv"} /\ slave.drive = 1
  /\ m_scl = IF line <= 2 THEN 0 ELSE 1
  /\ line > 1 => m_sda = 0
  /\ line = 4 => ~stretch

TransferInv ==
  Sound =>
    IF Running
    THEN /\ rx = Copies(reg, RxAt(op, call))
         /\ Primitive = "start" => InStart
         /\ Primitive = "write" => InWrite
         /\ Primitive = "read"  => InRead
         /\ Primitive = "stop"  => InStop
    ELSE slave.heard = op.ws /\ rx = Copies(reg, op.n)

-----------------------------------------------------------------------------
(* The clearing of the bus, with a slave that a reset has left sending. *)

\* The pulses that free the slave are among those still to come.
FreeAfterLow(pulses) ==
  \/ slave.mode = "idle"
  \/ slave.mode = "send" /\ slave.out + 2 <= pulses
  \/ slave.mode = "mack" /\ 1 <= pulses
FreeAfterHigh(pulses) ==
  \/ slave.mode = "idle"
  \/ slave.mode = "send" /\ slave.out + 1 <= pulses

RecoverInv ==
  op = Recovery =>
    /\ ~stretch
    /\ from \in Readers =>
         IF ~Running THEN slave.mode = "idle"
         ELSE /\ line = 1 => slave.mode = from /\ m_scl = 1
              /\ line \in {2, 3, 5} \/ (line = 4 /\ round = 1) =>
                   m_scl = 0 /\ FreeAfterLow(Pulses - round + 1)
              /\ line = 4 /\ round > 1 =>
                   m_scl = 1 /\ FreeAfterHigh(Pulses - round + 1)
              /\ line \in {4, 5, 6} => m_sda = 1
              /\ line = 6 => slave.mode = "idle"
              /\ line \in {7, 8} =>
                   slave.mode = "addr" /\ slave.drive = 1 /\ m_sda = 0

IInv == TypeInv /\ PlaceInv /\ TransferInv /\ RecoverInv

-----------------------------------------------------------------------------
(* The calls of an operation. *)

CallType == [do : {"start", "stop", "write", "read", "recover"},
             byte : Byte \cup {<< >>}, ack : BOOLEAN]

LEMMA FrontOfAppended ==
  ASSUME NEW S, NEW s \in Seq(S), NEW x \in S
  PROVE  SubSeq(Append(s, x), 1, Len(s)) = s
<1>1. Len(s) \in Nat /\ Len(Append(s, x)) = Len(s) + 1
  BY AppendProperties
<1>2. \A i \in 1 .. Len(s) : Append(s, x)[i] = s[i] /\ s[i] \in S
  BY AppendProperties
<1> DEFINE t == SubSeq(Append(s, x), 1, Len(s))
<1>3. t \in Seq(S) /\ Len(t) = Len(s) /\ \A i \in 1 .. Len(s) : t[i] = s[i]
  BY <1>1, <1>2, SubSeqProperties
<1> HIDE DEF t
<1>4. t = s
  BY <1>1, <1>3
<1> QED
  BY <1>4 DEF t

LEMMA CallTypes ==
  /\ Start \in CallType /\ Stop \in CallType
  /\ Start.do = "start" /\ Stop.do = "stop"
  /\ \A rw \in Bit : /\ Append(Address, rw) \in Byte
                     /\ Append(Address, rw)[Bits] = rw
                     /\ To(rw) \in CallType
                     /\ To(rw).do = "write" /\ To(rw).byte = Append(Address, rw)
  /\ \A w \in Byte : WriteByte(w) \in CallType /\ WriteByte(w).do = "write"
                      /\ WriteByte(w).byte = w
  /\ \A ack \in BOOLEAN : ReadByte(ack) \in CallType /\ ReadByte(ack).do = "read"
                           /\ ReadByte(ack).ack = ack
<1>1. ASSUME NEW rw \in Bit
      PROVE  Append(Address, rw) \in Byte /\ Append(Address, rw)[Bits] = rw
  <2>1. Address \in Seq(Bit) /\ Len(Address) = Bits - 1
    BY I2cAssumption
  <2>2. /\ Append(Address, rw) \in Seq(Bit) /\ Len(Append(Address, rw)) = Bits
        /\ Append(Address, rw)[Bits] = rw
    BY <2>1, AppendProperties, I2cAssumption
  <2> QED
    BY <2>2, LenProperties DEF Byte
<1> QED
  BY <1>1 DEF Start, Stop, Plain, To, WriteByte, ReadByte, CallType, Bit

LEMMA BytesSeq ==
  ASSUME NEW ws \in Seq(Byte)
  PROVE  Bytes(ws) \in Seq(CallType) /\ Len(Bytes(ws)) = Len(ws)
         /\ \A i \in 1 .. Len(ws) : Bytes(ws)[i] = WriteByte(ws[i])
  BY CallTypes DEF Bytes

LEMMA ReadingSeq ==
  ASSUME NEW n \in Nat
  PROVE  Reading(n) \in Seq(CallType) /\ Len(Reading(n)) = n
         /\ \A i \in 1 .. n : Reading(n)[i] = ReadByte(i < n)
<1>1. \A i \in 1 .. n : (i < n) \in BOOLEAN
  OBVIOUS
<1>2. \A i \in 1 .. n : ReadByte(i < n) \in CallType
  BY <1>1, CallTypes
<1> QED
  BY <1>2 DEF Reading

LEMMA Joined ==
  ASSUME NEW s \in Seq(CallType), NEW m \in Seq(CallType), NEW t \in Seq(CallType)
  PROVE  /\ s \o m \o t \in Seq(CallType)
         /\ Len(s \o m \o t) = Len(s) + Len(m) + Len(t)
         /\ \A i \in 1 .. Len(s) : (s \o m \o t)[i] = s[i]
         /\ \A i \in 1 .. Len(m) : (s \o m \o t)[Len(s) + i] = m[i]
         /\ \A i \in 1 .. Len(t) : (s \o m \o t)[Len(s) + Len(m) + i] = t[i]
<1> DEFINE d == s \o m  c == d \o t
<1>1. Len(s) \in Nat /\ Len(m) \in Nat /\ Len(t) \in Nat
  OBVIOUS
<1>2. /\ d \in Seq(CallType) /\ Len(d) = Len(s) + Len(m)
      /\ \A i \in 1 .. Len(s) + Len(m) : d[i] = IF i <= Len(s) THEN s[i]
                                                ELSE m[i - Len(s)]
  BY ConcatProperties
<1> HIDE DEF d
<1>a. d \in Seq(CallType)
  BY <1>2
<1>b. /\ d \o t \in Seq(CallType) /\ Len(d \o t) = Len(d) + Len(t)
      /\ \A i \in 1 .. Len(d) + Len(t) : (d \o t)[i] = IF i <= Len(d) THEN d[i]
                                                      ELSE t[i - Len(d)]
  BY <1>a, ConcatProperties
<1>3. /\ c \in Seq(CallType) /\ Len(c) = Len(d) + Len(t)
      /\ \A i \in 1 .. Len(d) + Len(t) : c[i] = IF i <= Len(d) THEN d[i]
                                                ELSE t[i - Len(d)]
  BY <1>b
<1> HIDE DEF c
<1>4. ASSUME NEW i \in 1 .. Len(s) PROVE c[i] = s[i]
  BY <1>1, <1>2, <1>3
<1>5. ASSUME NEW i \in 1 .. Len(m) PROVE c[Len(s) + i] = m[i]
  <2>1. /\ Len(s) + i \in 1 .. Len(s) + Len(m) /\ Len(s) + i \in 1 .. Len(d) + Len(t)
        /\ ~(Len(s) + i <= Len(s)) /\ Len(s) + i <= Len(d) /\ Len(s) + i - Len(s) = i
    BY <1>1, <1>2
  <2> QED
    BY <2>1, <1>2, <1>3
<1>6. ASSUME NEW i \in 1 .. Len(t) PROVE c[Len(s) + Len(m) + i] = t[i]
  <2>1. /\ Len(s) + Len(m) + i \in 1 .. Len(d) + Len(t)
        /\ ~(Len(s) + Len(m) + i <= Len(d)) /\ Len(s) + Len(m) + i - Len(d) = i
    BY <1>1, <1>2
  <2> QED
    BY <2>1, <1>3
<1>7. c = s \o m \o t
  BY DEF c, d
<1> QED
  BY <1>1, <1>2, <1>3, <1>4, <1>5, <1>6, <1>7

\* The calls in the four transfers.
LEMMA CallsOf ==
  ASSUME op \in Transfers
  PROVE  LET w == Len(op.ws)
         IN /\ Calls \in Seq(CallType) /\ w \in Nat
            /\ Calls[1] = Start /\ Calls[Len(Calls)] = Stop
            /\ \A i \in 1 .. w : Calls[2 + i] = WriteByte(op.ws[i])
            /\ op.name \in {"probe", "write"} => Len(Calls) = w + 3 /\ Calls[2] = To(0)
            /\ op.name = "read" =>
                 /\ Len(Calls) = op.n + 3 /\ Calls[2] = To(1)
                 /\ \A i \in 1 .. op.n : Calls[2 + i] = ReadByte(i < op.n)
            /\ op.name = "write_read" =>
                 /\ Len(Calls) = w + op.n + 5 /\ Calls[2] = To(0)
                 /\ Calls[w + 3] = Start /\ Calls[w + 4] = To(1)
                 /\ \A i \in 1 .. op.n : Calls[w + 4 + i] = ReadByte(i < op.n)
<1> DEFINE w == Len(op.ws)
<1>1. op.ws \in Seq(Byte) /\ op.n \in Nat /\ w \in Nat
  BY DEF Transfers
<1>2. /\ Start \in CallType /\ Stop \in CallType /\ To(0) \in CallType /\ To(1) \in CallType
  BY CallTypes DEF Bit
<1> DEFINE h0 == <<Start, To(0)>>  h1 == <<Start, To(1)>>  e == <<Stop>>
<1>3. /\ h0 \in Seq(CallType) /\ Len(h0) = 2 /\ h0[1] = Start /\ h0[2] = To(0)
      /\ h1 \in Seq(CallType) /\ Len(h1) = 2 /\ h1[1] = Start /\ h1[2] = To(1)
      /\ e \in Seq(CallType) /\ Len(e) = 1 /\ e[1] = Stop
  BY <1>2
<1>4. /\ Bytes(op.ws) \in Seq(CallType) /\ Len(Bytes(op.ws)) = w
      /\ \A i \in 1 .. w : Bytes(op.ws)[i] = WriteByte(op.ws[i])
  BY <1>1, BytesSeq
<1>5. /\ Reading(op.n) \in Seq(CallType) /\ Len(Reading(op.n)) = op.n
      /\ \A i \in 1 .. op.n : Reading(op.n)[i] = ReadByte(i < op.n)
  BY <1>1, ReadingSeq
<1> DEFINE B == Bytes(op.ws)  R == Reading(op.n)
<1>a. B \in Seq(CallType) /\ R \in Seq(CallType)
  BY <1>4, <1>5
<1>b. h0 \in Seq(CallType) /\ h1 \in Seq(CallType) /\ e \in Seq(CallType)
  BY <1>3
<1>c. Len(B) = w /\ Len(R) = op.n
  BY <1>4, <1>5
<1> HIDE DEF h0, h1, e, B, R
<1>6. CASE op.name = "probe"
  <2>1. Calls = <<Start, To(0), Stop>> /\ w = 0
    BY <1>6 DEF Calls, Transfers
  <2>2. /\ <<Start, To(0), Stop>> \in Seq(CallType) /\ Len(<<Start, To(0), Stop>>) = 3
        /\ <<Start, To(0), Stop>>[1] = Start /\ <<Start, To(0), Stop>>[2] = To(0)
        /\ <<Start, To(0), Stop>>[3] = Stop
    BY <1>2
  <2> QED
    BY <1>6, <2>1, <2>2
<1>7. CASE op.name = "write"
  <2>1. Calls = h0 \o B \o e
    BY <1>7 DEF Calls, h0, e, B
  <2>a. /\ (h0 \o B \o e) \in Seq(CallType)
        /\ Len(h0 \o B \o e) = Len(h0) + Len(B) + Len(e)
        /\ \A i \in 1 .. Len(h0) : (h0 \o B \o e)[i] = h0[i]
        /\ \A i \in 1 .. Len(B) : (h0 \o B \o e)[Len(h0) + i] = B[i]
        /\ \A i \in 1 .. Len(e) : (h0 \o B \o e)[Len(h0) + Len(B) + i] = e[i]
    BY <1>a, <1>b, Joined, ZenonT(90)
  <2>2. /\ Calls \in Seq(CallType) /\ Len(Calls) = 2 + w + 1
        /\ \A i \in 1 .. 2 : Calls[i] = h0[i]
        /\ \A i \in 1 .. w : Calls[2 + i] = B[i]
        /\ \A i \in 1 .. 1 : Calls[2 + w + i] = e[i]
    BY <2>1, <2>a, <1>3, <1>c
  <2>3. Calls[1] = Start /\ Calls[2] = To(0) /\ Calls[2 + w + 1] = Stop
    BY <2>2, <1>3
  <2>4. 2 + w + 1 = w + 3
    BY <1>1
  <2> QED
    BY <1>1, <1>4, <1>7, <2>2, <2>3, <2>4 DEF B
<1>8. CASE op.name = "read"
  <2>1. Calls = h1 \o R \o e /\ w = 0
    BY <1>8 DEF Calls, h1, e, R, Transfers
  <2>a. /\ (h1 \o R \o e) \in Seq(CallType)
        /\ Len(h1 \o R \o e) = Len(h1) + Len(R) + Len(e)
        /\ \A i \in 1 .. Len(h1) : (h1 \o R \o e)[i] = h1[i]
        /\ \A i \in 1 .. Len(R) : (h1 \o R \o e)[Len(h1) + i] = R[i]
        /\ \A i \in 1 .. Len(e) : (h1 \o R \o e)[Len(h1) + Len(R) + i] = e[i]
    BY <1>a, <1>b, Joined, ZenonT(90)
  <2>2. /\ Calls \in Seq(CallType) /\ Len(Calls) = 2 + op.n + 1
        /\ \A i \in 1 .. 2 : Calls[i] = h1[i]
        /\ \A i \in 1 .. op.n : Calls[2 + i] = R[i]
        /\ \A i \in 1 .. 1 : Calls[2 + op.n + i] = e[i]
    BY <2>1, <2>a, <1>3, <1>c
  <2>3. Calls[1] = Start /\ Calls[2] = To(1) /\ Calls[2 + op.n + 1] = Stop
    BY <2>2, <1>3
  <2>4. 2 + op.n + 1 = op.n + 3
    BY <1>1
  <2>5. \A i \in 1 .. w : Calls[2 + i] = WriteByte(op.ws[i])
    BY <2>1
  <2>6. \A i \in 1 .. op.n : Calls[2 + i] = ReadByte(i < op.n)
    BY <1>5, <2>2 DEF R
  <2> QED
    BY <1>1, <1>8, <2>1, <2>2, <2>3, <2>4, <2>5, <2>6
<1>9. CASE op.name = "write_read"
  <2> DEFINE c == h0 \o B \o h1
  <2>1. Calls = c \o R \o e
    <3>1. <<Start, To(0)>> \o Bytes(op.ws) \o <<Start, To(1)>> \o Reading(op.n) \o <<Stop>>
            = c \o R \o e
      BY DEF h0, h1, e, B, R
    <3> QED
      BY <1>9, <3>1 DEF Calls
  <2>a. /\ (h0 \o B \o h1) \in Seq(CallType)
        /\ Len(h0 \o B \o h1) = Len(h0) + Len(B) + Len(h1)
        /\ \A i \in 1 .. Len(h0) : (h0 \o B \o h1)[i] = h0[i]
        /\ \A i \in 1 .. Len(B) : (h0 \o B \o h1)[Len(h0) + i] = B[i]
        /\ \A i \in 1 .. Len(h1) : (h0 \o B \o h1)[Len(h0) + Len(B) + i] = h1[i]
    BY <1>a, <1>b, Joined, ZenonT(90)
  <2>2. /\ c \in Seq(CallType) /\ Len(c) = 2 + w + 2
        /\ \A i \in 1 .. 2 : c[i] = h0[i]
        /\ \A i \in 1 .. w : c[2 + i] = B[i]
        /\ \A i \in 1 .. 2 : c[2 + w + i] = h1[i]
    BY <2>a, <1>3, <1>c
  <2>c. c \in Seq(CallType)
    BY <2>2
  <2> HIDE DEF c
  <2>b. /\ (c \o R \o e) \in Seq(CallType)
        /\ Len(c \o R \o e) = Len(c) + Len(R) + Len(e)
        /\ \A i \in 1 .. Len(c) : (c \o R \o e)[i] = c[i]
        /\ \A i \in 1 .. Len(R) : (c \o R \o e)[Len(c) + i] = R[i]
        /\ \A i \in 1 .. Len(e) : (c \o R \o e)[Len(c) + Len(R) + i] = e[i]
    BY <1>a, <1>b, <2>c, Joined, ZenonT(90)
  <2>3. /\ Calls \in Seq(CallType) /\ Len(Calls) = Len(c) + op.n + 1
        /\ \A i \in 1 .. Len(c) : Calls[i] = c[i]
        /\ \A i \in 1 .. op.n : Calls[Len(c) + i] = R[i]
        /\ \A i \in 1 .. 1 : Calls[Len(c) + op.n + i] = e[i]
    BY <2>1, <2>b, <1>3, <1>c
  <2>4. /\ Len(c) = w + 4 /\ Len(Calls) = w + op.n + 5 /\ Len(c) + op.n + 1 = w + op.n + 5
        /\ 2 + w + 1 = w + 3 /\ 2 + w + 2 = w + 4
        /\ {1, 2, w + 3, w + 4} \subseteq 1 .. Len(c)
        /\ \A i \in 1 .. w : 2 + i \in 1 .. Len(c)
    <3>1. Len(c) = w + 4 /\ Len(Calls) = w + op.n + 5
      BY <1>1, <2>2, <2>3
    <3>2. {1, 2, w + 3, w + 4} \subseteq 1 .. w + 4
      BY <1>1
    <3>3. \A i \in 1 .. w : 2 + i \in 1 .. w + 4
      BY <1>1
    <3> QED
      BY <1>1, <3>1, <3>2, <3>3
  <2>5. /\ Calls[1] = Start /\ Calls[2] = To(0)
        /\ Calls[w + 3] = Start /\ Calls[w + 4] = To(1)
    <3>1. c[1] = Start /\ c[2] = To(0) /\ c[w + 3] = Start /\ c[w + 4] = To(1)
      BY <2>2, <2>4, <1>3
    <3> QED
      BY <3>1, <2>3, <2>4
  <2>6. Calls[w + op.n + 5] = Stop
    BY <2>3, <2>4, <1>3
  <2>7. \A i \in 1 .. w : Calls[2 + i] = WriteByte(op.ws[i])
    BY <2>2, <2>3, <2>4, <1>4 DEF B
  <2>8. \A i \in 1 .. op.n : Calls[w + 4 + i] = ReadByte(i < op.n)
    BY <2>3, <2>4, <1>5 DEF R
  <2> QED
    BY <1>1, <1>9, <2>3, <2>4, <2>5, <2>6, <2>7, <2>8
<1> QED
  BY <1>6, <1>7, <1>8, <1>9 DEF Transfers, TransferNames

\* What comes after a call, and how many bytes each has seen by then.
NextOf(c) ==
  LET d == Calls[c + 1].do
  IN CASE Calls[c].do = "start" ->
            /\ d = "write" /\ Calls[c + 1].byte[Bits] \in Bit
            /\ SubSeq(Calls[c + 1].byte, 1, Bits - 1) = Address
            /\ HeardAt(op, c + 1) = HeardAt(op, c) /\ RxAt(op, c + 1) = RxAt(op, c)
       [] Calls[c].do = "write" ->
            /\ c > 1 /\ Calls[c].byte \in Byte
            /\ IF Calls[c - 1].do = "start"
               THEN /\ HeardAt(op, c + 1) = HeardAt(op, c)
                    /\ IF Calls[c].byte[Bits] = 1 THEN d = "read"
                       ELSE d \in {"write", "start", "stop"}
               ELSE /\ HeardAt(op, c) \in 0 .. Len(op.ws) - 1
                    /\ HeardAt(op, c + 1) = HeardAt(op, c) + 1
                    /\ Calls[c].byte = op.ws[HeardAt(op, c) + 1]
                    /\ d \in {"write", "start", "stop"}
            /\ RxAt(op, c + 1) = RxAt(op, c)
       [] Calls[c].do = "read" ->
            /\ HeardAt(op, c + 1) = HeardAt(op, c)
            /\ RxAt(op, c + 1) = RxAt(op, c) + 1
            /\ Calls[c].ack \in BOOLEAN
            /\ d = IF Calls[c].ack THEN "read" ELSE "stop"
       [] OTHER -> FALSE

LEMMA CallFacts ==
  ASSUME op \in Transfers, NEW c \in 1 .. Len(Calls)
  PROVE  /\ Len(Calls) \in Nat /\ Len(Calls) > 1
         /\ HeardAt(op, c) \in 0 .. Len(op.ws) /\ RxAt(op, c) \in Nat
         /\ Calls[1].do = "start" /\ HeardAt(op, 1) = 0 /\ RxAt(op, 1) = 0
         /\ HeardAt(op, Len(Calls)) = Len(op.ws) /\ RxAt(op, Len(Calls)) = op.n
         /\ Calls[Len(Calls)].do = "stop"
         /\ c < Len(Calls) => NextOf(c)
<1> DEFINE w == Len(op.ws)  n == op.n  k == Len(Calls)
           Do(i) == Calls[i].do  base == FirstRead(op) - 1
<1>1. op.ws \in Seq(Byte) /\ n \in Nat /\ w \in Nat
  BY DEF Transfers
<1>2. /\ Start.do = "start" /\ Stop.do = "stop"
      /\ \A rw \in Bit : /\ To(rw).do = "write" /\ To(rw).byte \in Byte
                         /\ To(rw).byte[Bits] = rw
                         /\ SubSeq(To(rw).byte, 1, Bits - 1) = Address
      /\ \A v \in Byte : WriteByte(v).do = "write" /\ WriteByte(v).byte = v
      /\ \A ack \in BOOLEAN : ReadByte(ack).do = "read" /\ ReadByte(ack).ack = ack
  <2>1. ASSUME NEW rw \in Bit PROVE SubSeq(Append(Address, rw), 1, Bits - 1) = Address
    <3>1. Address \in Seq(Bit) /\ Len(Address) = Bits - 1
      BY I2cAssumption
    <3> QED
      BY <3>1, FrontOfAppended
  <2> QED
    BY <2>1, CallTypes
<1>3. 0 \in Bit /\ 1 \in Bit
  BY DEF Bit
<1>4. Calls[1] = Start /\ Calls[k] = Stop /\ k \in Nat
      /\ \A i \in 1 .. w : Calls[2 + i] = WriteByte(op.ws[i])
  BY CallsOf
<1>5. \A i \in 1 .. w : /\ Do(2 + i) = "write" /\ Calls[2 + i].byte = op.ws[i]
                       /\ op.ws[i] \in Byte
  BY <1>1, <1>2, <1>4
<1>6. Do(1) = "start" /\ Do(k) = "stop"
  BY <1>2, <1>4
<1>7. /\ Do(2) = "write" /\ Calls[2].byte \in Byte
      /\ Calls[2].byte[Bits] = IF op.name = "read" THEN 1 ELSE 0
      /\ SubSeq(Calls[2].byte, 1, Bits - 1) = Address
  <2>1. Calls[2] = IF op.name = "read" THEN To(1) ELSE To(0)
    BY CallsOf DEF Transfers, TransferNames
  <2> QED
    BY <2>1, <1>2, <1>3
<1>8. /\ n = 0 => k = w + 3
      /\ op.name = "read" => w = 0 /\ n > 0 /\ k = n + 3 /\ base = 2
      /\ op.name # "read" /\ n > 0 =>
           /\ k = w + n + 5 /\ base = w + 4
           /\ Do(w + 3) = "start" /\ Do(w + 4) = "write" /\ Calls[w + 4].byte \in Byte
           /\ Calls[w + 4].byte[Bits] = 1
           /\ SubSeq(Calls[w + 4].byte, 1, Bits - 1) = Address
      /\ op.name = "read" => n > 0
  <2>1. CASE op.name = "read"
    <3>1. op.ws = << >> /\ n > 0 /\ k = n + 3
      BY <2>1, CallsOf DEF Transfers
    <3>2. w = 0 /\ base = 2
      BY <2>1, <3>1 DEF FirstRead
    <3> HIDE DEF w, base, n, k
    <3> QED
      BY <2>1, <3>1, <3>2, <1>1
  <2>2. CASE op.name \in {"probe", "write"}
    <3>1. n = 0 /\ k = w + 3
      BY <2>2, CallsOf DEF Transfers
    <3> HIDE DEF w, base, n, k
    <3> QED
      BY <2>2, <3>1
  <2>3. CASE op.name = "write_read"
    <3>1. n > 0 /\ k = w + n + 5 /\ Calls[w + 3] = Start /\ Calls[w + 4] = To(1)
      BY <2>3, CallsOf DEF Transfers
    <3>2. base = w + 4
      BY <2>3, <1>1 DEF FirstRead
    <3>3. Do(w + 3) = "start" /\ Do(w + 4) = "write" /\ Calls[w + 4].byte \in Byte
          /\ Calls[w + 4].byte[Bits] = 1
          /\ SubSeq(Calls[w + 4].byte, 1, Bits - 1) = Address
      BY <3>1, <1>2, <1>3
    <3> HIDE DEF w, base, n, k, Do
    <3> QED
      BY <2>3, <3>1, <3>2, <3>3, <1>1
  <2> QED
    BY <2>1, <2>2, <2>3 DEF Transfers, TransferNames
<1>9. \A i \in 1 .. n : Do(base + i) = "read" /\ Calls[base + i].ack = (i < n)
  <2>1. \A i \in 1 .. n : Calls[base + i] = ReadByte(i < n)
    <3>1. CASE op.name = "read"
      BY <3>1, <1>8, CallsOf
    <3>2. CASE op.name = "write_read"
      <4>1. base = w + 4
        BY <3>2, <1>1 DEF FirstRead
      <4> QED
        BY <3>2, <4>1, CallsOf
    <3>3. CASE op.name \in {"probe", "write"}
      BY <3>3, <1>1 DEF Transfers
    <3> QED
      BY <3>1, <3>2, <3>3 DEF Transfers, TransferNames
  <2>2. \A i \in 1 .. n : (i < n) \in BOOLEAN
    OBVIOUS
  <2> QED
    BY <2>1, <2>2, <1>2
<1>10. /\ \A i : HeardAt(op, i) = IF i <= 3 THEN 0 ELSE IF i <= w + 3 THEN i - 3 ELSE w
       /\ \A i : RxAt(op, i) = IF i <= base + 1 THEN 0
                          ELSE IF i <= base + 1 + n THEN i - (base + 1) ELSE n
  BY <1>1 DEF HeardAt, RxAt, FirstRead
<1>e. base = IF op.name = "read" THEN 2 ELSE w + 4
  BY <1>1 DEF FirstRead
<1>f. /\ base \in Nat /\ (n = 0 => k = w + 3) /\ (n > 0 => k = base + n + 1)
      /\ base >= w + 2 /\ (n > 0 => k >= w + 3)
  <2> HIDE DEF w, base, n, k, Do
  <2>1. CASE op.name = "read"
    BY <2>1, <1>e, <1>1, <1>4, <1>8
  <2>2. CASE op.name # "read"
    BY <2>2, <1>e, <1>1, <1>4, <1>8
  <2> QED
    BY <2>1, <2>2
<1> DEFINE N(i) == NextOf(i)
<1> SUFFICES /\ k > 1 /\ HeardAt(op, c) \in 0 .. w /\ RxAt(op, c) \in Nat
             /\ HeardAt(op, 1) = 0 /\ RxAt(op, 1) = 0 /\ HeardAt(op, k) = w /\ RxAt(op, k) = n
             /\ c < k => N(c)
  BY <1>4, <1>6
<1>11. c \in 1 .. k
  OBVIOUS
<1> HIDE DEF w, n, k, Do, base, N
<1>12. /\ k > 1 /\ HeardAt(op, c) \in 0 .. w /\ RxAt(op, c) \in Nat
       /\ HeardAt(op, 1) = 0 /\ RxAt(op, 1) = 0 /\ HeardAt(op, k) = w /\ RxAt(op, k) = n
  <2>1. k > 1 /\ base \in Nat /\ (n = 0 => k = w + 3) /\ (n > 0 => k = base + n + 1 /\ k >= w + 3)
        /\ base + 1 >= w + 3
    <3>1. w \in Nat /\ n \in Nat /\ k \in Nat
      BY <1>1, <1>4
    <3> QED
      BY <3>1, <1>f
  <2>2. HeardAt(op, c) \in 0 .. w /\ HeardAt(op, 1) = 0
    BY <1>1, <1>4, <1>e, <1>f, <1>10, <1>11
  <2>3. RxAt(op, c) \in Nat /\ RxAt(op, 1) = 0
    BY <2>1, <1>1, <1>4, <1>e, <1>f, <1>10, <1>11
  <2>a. k \in Nat /\ w \in Nat /\ k >= w + 3
    BY <2>1, <1>1, <1>4
  <2>b. HeardAt(op, k) = IF k <= 3 THEN 0 ELSE IF k <= w + 3 THEN k - 3 ELSE w
    BY <1>e, <1>f, <1>10
  <2>4. HeardAt(op, k) = w
    BY <2>a, <2>b
  <2>5. RxAt(op, k) = n
    BY <2>1, <1>1, <1>4, <1>e, <1>f, <1>10
  <2> QED
    BY <2>1, <2>2, <2>3, <2>4, <2>5
<1>13. ASSUME c < k, c = 1 PROVE N(c)
  BY <1>1, <1>3, <1>6, <1>7, <1>e, <1>f, <1>10, <1>13 DEF N, NextOf, Do
<1>14. ASSUME c < k, c = 2 PROVE N(c)
  <2>1. IF op.name = "read" THEN Do(3) = "read" ELSE Do(3) \in {"write", "start", "stop"}
    <3>1. CASE op.name = "read"
      <4>1. 1 \in 1 .. n /\ base + 1 = 3
        BY <3>1, <1>1, <1>8
      <4> QED
        BY <3>1, <4>1, <1>9
    <3>2. CASE op.name # "read" /\ w > 0
      <4>1. 1 \in 1 .. w /\ 2 + 1 = 3
        BY <3>2, <1>1
      <4> QED
        BY <3>2, <4>1, <1>5
    <3>3. CASE op.name # "read" /\ w = 0
      BY <3>3, <1>1, <1>6, <1>8
    <3> QED
      BY <3>1, <3>2, <3>3, <1>1
  <2>2. HeardAt(op, 3) = HeardAt(op, 2) /\ RxAt(op, 3) = RxAt(op, 2)
    BY <1>1, <1>e, <1>f, <1>10
  <2> QED
    BY <2>1, <2>2, <1>6, <1>7, <1>14 DEF N, NextOf, Do
<1>15. ASSUME c < k, c > 2, c <= w + 2 PROVE N(c)
  <2> DEFINE i == c - 2
  <2>1. i \in 1 .. w /\ c = 2 + i
    BY <1>1, <1>11, <1>15
  <2> HIDE DEF i
  <2>a. /\ i \in Int /\ 1 <= i /\ i <= w /\ c + 1 <= base + 1 /\ c <= base + 1
        /\ c + 1 = i + 3 /\ c + 1 <= w + 3 /\ c <= w + 3
    BY <2>1, <1>1, <1>f
  <2>b. HeardAt(op, c) = i - 1
    <3>1. HeardAt(op, c) = IF c <= 3 THEN 0 ELSE IF c <= w + 3 THEN c - 3 ELSE w
      BY <1>10
    <3> QED
      BY <3>1, <2>1, <2>a
  <2>c. HeardAt(op, c + 1) = i
    <3>1. HeardAt(op, c + 1) = IF c + 1 <= 3 THEN 0
                               ELSE IF c + 1 <= w + 3 THEN c + 1 - 3 ELSE w
      BY <1>10
    <3> QED
      BY <3>1, <2>1, <2>a
  <2>d. RxAt(op, c + 1) = RxAt(op, c)
    BY <2>a, <1>10
  <2>2. /\ HeardAt(op, c) = i - 1 /\ HeardAt(op, c + 1) = i /\ i - 1 \in 0 .. w - 1
        /\ i - 1 + 1 = i /\ RxAt(op, c + 1) = RxAt(op, c)
    BY <2>1, <2>b, <2>c, <2>d, <1>1
  <2>3. Do(c) = "write" /\ Calls[c].byte = op.ws[i] /\ op.ws[i] \in Byte
    BY <2>1, <1>5
  <2>4. Do(c - 1) = "write"
    <3>1. CASE i = 1
      BY <3>1, <2>1, <1>7
    <3>2. CASE i > 1
      <4>1. i - 1 \in 1 .. w /\ c - 1 = 2 + (i - 1)
        BY <3>2, <2>1, <1>1
      <4> QED
        BY <4>1, <1>5
    <3> QED
      BY <3>1, <3>2, <2>1
  <2>5. Do(c + 1) \in {"write", "start", "stop"}
    <3>1. CASE i < w
      <4>1. i + 1 \in 1 .. w /\ c + 1 = 2 + (i + 1)
        BY <3>1, <2>1, <1>1
      <4> QED
        BY <4>1, <1>5
    <3>2. CASE i = w
      <4>1. c + 1 = w + 3 /\ w > 0
        BY <3>2, <2>1, <1>1
      <4> QED
        BY <4>1, <1>1, <1>6, <1>8
    <3> QED
      BY <3>1, <3>2, <2>1, <1>1
  <2>6. HeardAt(op, c) + 1 = i /\ HeardAt(op, c) \in 0 .. w - 1 /\ c > 1
    BY <2>1, <2>2, <1>1
  <2> QED
    BY <2>2, <2>3, <2>4, <2>5, <2>6 DEF N, NextOf, Do, w
<1>16. ASSUME c < k, op.name # "read", c = w + 3 PROVE N(c)
  <2>1. n > 0
    BY <1>1, <1>8, <1>16
  <2>a. w \in Nat /\ base = w + 4 /\ c + 1 = w + 4 /\ c = w + 3
    BY <1>1, <1>e, <1>16
  <2>b. HeardAt(op, w + 3) = (IF w + 3 <= 3 THEN 0 ELSE IF w + 3 <= w + 3 THEN w + 3 - 3 ELSE w)
        /\ HeardAt(op, w + 4) = (IF w + 4 <= 3 THEN 0 ELSE IF w + 4 <= w + 3 THEN w + 4 - 3 ELSE w)
    BY DEF HeardAt, w
  <2>c. RxAt(op, w + 3) = 0 /\ RxAt(op, w + 4) = 0
    BY <2>a, <1>10
  <2>d. HeardAt(op, w + 3) = w /\ HeardAt(op, w + 4) = w
    BY <2>a, <2>b
  <2>2. c + 1 = w + 4 /\ HeardAt(op, c + 1) = HeardAt(op, c) /\ RxAt(op, c + 1) = RxAt(op, c)
    BY <2>a, <2>c, <2>d
  <2> QED
    BY <2>1, <2>2, <1>3, <1>8, <1>16 DEF N, NextOf, Do
<1>17. ASSUME c < k, op.name # "read", c = w + 4 PROVE N(c)
  <2>1. n > 0
    BY <1>1, <1>8, <1>17
  <2>a. w \in Nat /\ n \in Nat /\ base = w + 4 /\ c + 1 = w + 5 /\ c = w + 4
    BY <1>1, <1>e, <1>17
  <2>b. HeardAt(op, w + 5) = (IF w + 5 <= 3 THEN 0 ELSE IF w + 5 <= w + 3 THEN w + 5 - 3 ELSE w)
        /\ HeardAt(op, w + 4) = (IF w + 4 <= 3 THEN 0 ELSE IF w + 4 <= w + 3 THEN w + 4 - 3 ELSE w)
    BY DEF HeardAt, w
  <2>c. RxAt(op, w + 5) = 0 /\ RxAt(op, w + 4) = 0
    BY <2>a, <1>10
  <2>d. HeardAt(op, w + 5) = w /\ HeardAt(op, w + 4) = w
    BY <2>a, <2>b
  <2>e. c - 1 = w + 3 /\ c > 1 /\ c + 1 = base + 1 /\ 1 \in 1 .. n
    BY <2>1, <2>a
  <2>2. /\ c - 1 = w + 3 /\ c > 1 /\ HeardAt(op, c + 1) = HeardAt(op, c) /\ RxAt(op, c + 1) = RxAt(op, c)
        /\ c + 1 = base + 1 /\ 1 \in 1 .. n
    BY <2>a, <2>c, <2>d, <2>e
  <2>3. Do(c + 1) = "read"
    BY <2>2, <1>9
  <2> QED
    BY <2>1, <2>2, <2>3, <1>8, <1>17 DEF N, NextOf, Do
<1>18. ASSUME c < k, c > base, n > 0 PROVE N(c)
  <2> DEFINE i == c - base
  <2>1. i \in 1 .. n /\ c = base + i
    BY <1>1, <1>f, <1>11, <1>18
  <2> HIDE DEF i
  <2>2. HeardAt(op, c + 1) = HeardAt(op, c) /\ RxAt(op, c) = i - 1 /\ RxAt(op, c + 1) = i /\ i - 1 + 1 = i
    BY <2>1, <1>1, <1>8, <1>e, <1>f, <1>10
  <2>3. Do(c) = "read" /\ Calls[c].ack = (i < n)
    BY <2>1, <1>9
  <2>4. Do(c + 1) = IF i < n THEN "read" ELSE "stop"
    <3>1. CASE i < n
      <4>1. i + 1 \in 1 .. n /\ c + 1 = base + (i + 1)
        BY <3>1, <2>1, <1>1, <1>f
      <4> QED
        BY <3>1, <4>1, <1>9
    <3>2. CASE ~(i < n)
      <4>1. c + 1 = k
        BY <3>2, <2>1, <1>1, <1>f
      <4> QED
        BY <3>2, <4>1, <1>6
    <3> QED
      BY <3>1, <3>2
  <2>a. RxAt(op, c + 1) = RxAt(op, c) + 1
    BY <2>2
  <2>b. Calls[c].ack \in BOOLEAN
    <3>1. Calls \in Seq(CallType)
      BY CallsOf
    <3>2. Calls[c] \in CallType
      BY <3>1, <1>11 DEF k
    <3> QED
      BY <3>2 DEF CallType
  <2>c. Do(c + 1) = IF Calls[c].ack THEN "read" ELSE "stop"
    BY <2>3, <2>4
  <2>5. /\ RxAt(op, c + 1) = RxAt(op, c) + 1 /\ Calls[c].ack \in BOOLEAN
        /\ Do(c + 1) = IF Calls[c].ack THEN "read" ELSE "stop"
    BY <2>a, <2>b, <2>c
  <2> QED
    BY <2>2, <2>3, <2>5 DEF N, NextOf, Do
<1>19. c < k => c = 1 \/ c = 2 \/ (c > 2 /\ c <= w + 2)
                \/ (op.name # "read" /\ c \in {w + 3, w + 4}) \/ (c > base /\ n > 0)
  BY <1>1, <1>8, <1>e, <1>f, <1>11
<1>20. c < k => N(c)
  BY <1>13, <1>14, <1>15, <1>16, <1>17, <1>18, <1>19
<1> QED
  BY <1>12, <1>20
LEMMA CodeFacts ==
  /\ Code("start") = i2c_start /\ Len(Code("start")) = 5
  /\ Loop("start").first = 1 /\ Loop("start").last = 1 /\ Loop("start").rounds = 1
  /\ Code("stop") = i2c_stop /\ Len(Code("stop")) = 4
  /\ Loop("stop").first = 1 /\ Loop("stop").last = 1 /\ Loop("stop").rounds = 1
  /\ Code("write") = i2c_write_byte /\ Len(Code("write")) = 9
  /\ Loop("write").first = 1 /\ Loop("write").last = 4 /\ Loop("write").rounds = Bits
  /\ Code("read") = i2c_read_byte /\ Len(Code("read")) = 10
  /\ Loop("read").first = 2 /\ Loop("read").last = 5 /\ Loop("read").rounds = Bits
  /\ Code("recover") = op_recover /\ Len(Code("recover")) = 8
  /\ Loop("recover").first = 4 /\ Loop("recover").last = 5 /\ Loop("recover").rounds = Pulses
  BY DEF Code, Loop, i2c_start, i2c_stop, i2c_write_byte, i2c_read_byte, op_recover

LEMMA SameOp ==
  ASSUME op' = op
  PROVE  Calls' = Calls
  BY DEF Calls, Start, Stop, Plain, To, Bytes, Reading, WriteByte, ReadByte

\* The recovery has one call, and no operation has none.
LEMMA OtherCalls ==
  /\ op = Recovery => Calls = <<Plain("recover")>> /\ Len(Calls) = 1
                      /\ Calls[1].do = "recover"
  /\ op = None => Calls = << >> /\ Len(Calls) = 0
<1>1. CASE op = Recovery
  <2>1. op.name = "recover"
    BY <1>1 DEF Recovery, Transfer
  <2>2. Calls = <<Plain("recover")>>
    BY <2>1 DEF Calls
  <2> QED
    BY <1>1, <2>1, <2>2 DEF Plain, None, Transfer
<1>2. CASE op = None
  <2>1. op.name = "none"
    BY <1>2 DEF None, Transfer
  <2>2. Calls = << >>
    BY <2>1 DEF Calls
  <2> QED
    BY <1>2, <2>1, <2>2 DEF Recovery, Transfer
<1> QED
  BY <1>1, <1>2

LEMMA FirstNone ==
  ASSUME NEW w PROVE First(w, 0) = << >>
  BY DEF First

LEMMA FirstGrows ==
  ASSUME NEW S, NEW k \in Nat, NEW w, \A i \in 1 .. k + 1 : w[i] \in S
  PROVE  Append(First(w, k), w[k + 1]) = First(w, k + 1)
<1>1. First(w, k) \in Seq(S) /\ Len(First(w, k)) = k
  BY DEF First
<1> DEFINE a == Append(First(w, k), w[k + 1])
<1>2. w[k + 1] \in S
  OBVIOUS
<1>3. a \in Seq(S) /\ Len(a) = k + 1 /\ a[k + 1] = w[k + 1]
      /\ \A i \in 1 .. k : a[i] = First(w, k)[i]
  BY <1>1, <1>2, AppendProperties
<1>4. \A i \in 1 .. k : First(w, k)[i] = w[i]
  BY DEF First
<1> HIDE DEF a
<1>5. \A i \in 1 .. k + 1 : a[i] = w[i]
  BY <1>3, <1>4
<1>6. First(w, k + 1) \in Seq(S) /\ Len(First(w, k + 1)) = k + 1
      /\ \A i \in 1 .. k + 1 : First(w, k + 1)[i] = w[i]
  BY DEF First
<1>7. a = First(w, k + 1)
  BY <1>3, <1>5, <1>6
<1> QED
  BY <1>7 DEF a

LEMMA CopiesGrow ==
  ASSUME NEW S, NEW k \in Nat, NEW r \in S
  PROVE  Append(Copies(r, k), r) = Copies(r, k + 1)
<1>1. Copies(r, k) \in Seq(S) /\ Len(Copies(r, k)) = k
  BY DEF Copies
<1> DEFINE a == Append(Copies(r, k), r)
<1>2. a \in Seq(S) /\ Len(a) = k + 1 /\ a[k + 1] = r
      /\ \A i \in 1 .. k : a[i] = Copies(r, k)[i]
  BY <1>1, AppendProperties
<1>3. \A i \in 1 .. k : Copies(r, k)[i] = r
  BY DEF Copies
<1> HIDE DEF a
<1>4. \A i \in 1 .. k + 1 : a[i] = r
  BY <1>2, <1>3
<1>5. Copies(r, k + 1) \in Seq(S) /\ Len(Copies(r, k + 1)) = k + 1
      /\ \A i \in 1 .. k + 1 : Copies(r, k + 1)[i] = r
  BY DEF Copies
<1>6. a = Copies(r, k + 1)
  BY <1>2, <1>4, <1>5
<1> QED
  BY <1>6 DEF a

LEMMA FirstAll ==
  ASSUME NEW S, NEW s \in Seq(S)
  PROVE  First(s, Len(s)) = s
  BY DEF First

LEMMA FirstByte ==
  ASSUME NEW w \in Byte
  PROVE  First(w, Bits) = w /\ \A k \in 0 .. Bits : First(w, k) \in Seq(Bit)
                                                    /\ Len(First(w, k)) = k
  BY I2cAssumption DEF First, Byte

-----------------------------------------------------------------------------
(* Types. *)

LEMMA SlaveFields ==
  ASSUME NEW s \in Slaves
  PROVE  /\ s \in SlaveRecord
         /\ s.mode \in Modes /\ s.bits \in Seq(Bit) /\ s.out \in 0 .. Bits - 1
         /\ s.drive \in Bit /\ s.heard \in Seq(Seq(Bit))
         /\ s.mode \in {"idle", "mack"} => s.drive = 1
  BY DEF Slaves, SlaveRecord

LEMMA FreeTypes ==
  ASSUME NEW h \in Seq(Seq(Bit))
  PROVE  Free(h) \in Slaves /\ Free(h).mode = "idle" /\ Free(h).drive = 1
         /\ Free(h).heard = h /\ Free(h).bits = << >>
<1>1. "idle" \in Modes /\ << >> \in Seq(Bit) /\ 0 \in 0 .. Bits - 1 /\ 1 \in Bit
  BY I2cAssumption DEF Modes, Bit
<1>2. Free(h) \in Slaves
  BY <1>1 DEF Free, Slaves, SlaveRecord
<1> QED
  BY <1>2 DEF Free

\* What the slave does at a falling edge, mode by mode.
LEMMA FallenFields ==
  ASSUME NEW s \in Slaves, reg \in Byte
  PROVE  /\ Fallen(s) \in Slaves
         /\ s.mode = "addr" /\ Len(s.bits) = Bits
              /\ SubSeq(s.bits, 1, Bits - 1) = Address =>
              /\ Fallen(s).mode = IF s.bits[Bits] = 1 THEN "ack_r" ELSE "ack_w"
              /\ Fallen(s).bits = << >> /\ Fallen(s).drive = 0
              /\ Fallen(s).heard = s.heard
         /\ s.mode = "recv" /\ Len(s.bits) = Bits =>
              /\ Fallen(s).mode = "ack_w" /\ Fallen(s).drive = 0
              /\ Fallen(s).bits = << >> /\ Fallen(s).heard = Append(s.heard, s.bits)
         /\ s.mode \in {"addr", "recv"} /\ Len(s.bits) # Bits => Fallen(s) = s
         /\ s.mode = "ack_w" => /\ Fallen(s).mode = "recv" /\ Fallen(s).drive = 1
                                /\ Fallen(s).bits = s.bits /\ Fallen(s).heard = s.heard
         /\ s.mode \in {"ack_r", "more"} =>
              /\ Fallen(s).mode = "send" /\ Fallen(s).drive = reg[1]
              /\ Fallen(s).out = Bits - 1
              /\ Fallen(s).bits = s.bits /\ Fallen(s).heard = s.heard
         /\ s.mode = "send" /\ s.out = 0 =>
              /\ Fallen(s).mode = "mack" /\ Fallen(s).drive = 1
              /\ Fallen(s).bits = s.bits /\ Fallen(s).heard = s.heard
         /\ s.mode = "send" /\ s.out > 0 =>
              /\ Fallen(s).mode = "send" /\ Fallen(s).drive = reg[Bits - s.out + 1]
              /\ Fallen(s).out = s.out - 1
              /\ Fallen(s).bits = s.bits /\ Fallen(s).heard = s.heard
         /\ s.mode \in {"idle", "mack"} => Fallen(s) = s
<1>1. /\ s \in SlaveRecord
      /\ s.mode \in Modes /\ s.bits \in Seq(Bit) /\ s.out \in 0 .. Bits - 1
      /\ s.drive \in Bit /\ s.heard \in Seq(Seq(Bit))
      /\ s.mode \in {"idle", "mack"} => s.drive = 1
  BY SlaveFields
<1>2. /\ 0 \in Bit /\ 1 \in Bit /\ << >> \in Seq(Bit)
      /\ Bits - 1 \in 0 .. Bits - 1 /\ 1 \in 1 .. Bits
      /\ \A i \in 1 .. Bits : reg[i] \in Bit
  BY I2cAssumption DEF Bit, Byte
<1>3. {"recv", "ack_w", "ack_r", "send", "mack"} \subseteq Modes
  BY DEF Modes
<1>4. CASE s.mode = "addr" /\ Len(s.bits) = Bits
  <2> DEFINE m == IF s.bits[Bits] = 1 THEN "ack_r" ELSE "ack_w"
             t == [s EXCEPT !.mode = m, !.bits = << >>, !.drive = 0]
  <2>1. Fallen(s) = IF SubSeq(s.bits, 1, Bits - 1) = Address THEN t ELSE Free(s.heard)
    BY <1>4 DEF Fallen
  <2>2. m \in Modes /\ m \notin {"idle", "mack"}
    BY <1>3
  <2> HIDE DEF m
  <2>3. t \in Slaves /\ t.mode = m /\ t.bits = << >> /\ t.drive = 0 /\ t.heard = s.heard
    BY <2>2, <1>1, <1>2 DEF Slaves, SlaveRecord
  <2>4. Free(s.heard) \in Slaves
    BY <1>1, FreeTypes
  <2> HIDE DEF t
  <2> QED
    BY <1>4, <2>1, <2>3, <2>4 DEF m
<1>5. CASE s.mode = "recv" /\ Len(s.bits) = Bits
  <2> DEFINE h == Append(s.heard, s.bits)
             t == [s EXCEPT !.mode = "ack_w", !.bits = << >>, !.drive = 0, !.heard = h]
  <2>1. Fallen(s) = t
    BY <1>5 DEF Fallen
  <2>2. h \in Seq(Seq(Bit))
    BY <1>1
  <2> HIDE DEF h
  <2>3. t \in Slaves /\ t.mode = "ack_w" /\ t.bits = << >> /\ t.drive = 0 /\ t.heard = h
    BY <2>2, <1>1, <1>2, <1>3 DEF Slaves, SlaveRecord
  <2> HIDE DEF t
  <2> QED
    BY <1>5, <2>1, <2>3 DEF h
<1>6. CASE s.mode = "ack_w"
  <2> DEFINE t == [s EXCEPT !.mode = "recv", !.drive = 1]
  <2>1. Fallen(s) = t
    BY <1>6 DEF Fallen
  <2>2. t \in Slaves /\ t.mode = "recv" /\ t.drive = 1 /\ t.bits = s.bits
        /\ t.heard = s.heard
    BY <1>1, <1>2, <1>3 DEF Slaves, SlaveRecord
  <2> HIDE DEF t
  <2> QED
    BY <1>6, <2>1, <2>2
<1>7. CASE s.mode \in {"ack_r", "more"}
  <2> DEFINE t == [s EXCEPT !.mode = "send", !.drive = reg[1], !.out = Bits - 1]
  <2>1. Fallen(s) = t
    BY <1>7 DEF Fallen, Sending
  <2>2. t \in Slaves /\ t.mode = "send" /\ t.drive = reg[1] /\ t.out = Bits - 1
        /\ t.bits = s.bits /\ t.heard = s.heard
    BY <1>1, <1>2, <1>3 DEF Slaves, SlaveRecord
  <2> HIDE DEF t
  <2> QED
    BY <1>7, <2>1, <2>2
<1>8. CASE s.mode = "send" /\ s.out = 0
  <2> DEFINE t == [s EXCEPT !.mode = "mack", !.drive = 1]
  <2>1. Fallen(s) = t
    BY <1>8 DEF Fallen
  <2>2. t \in Slaves /\ t.mode = "mack" /\ t.drive = 1 /\ t.bits = s.bits
        /\ t.heard = s.heard
    BY <1>1, <1>2, <1>3 DEF Slaves, SlaveRecord
  <2> HIDE DEF t
  <2> QED
    BY <1>8, <2>1, <2>2
<1>9. CASE s.mode = "send" /\ s.out # 0
  <2> DEFINE d == reg[Bits - s.out + 1]  o == s.out - 1
             t == [s EXCEPT !.drive = d, !.out = o]
  <2>1. Fallen(s) = t
    <3>1. ~(s.mode = "addr" /\ Len(s.bits) = Bits) /\ ~(s.mode = "recv" /\ Len(s.bits) = Bits)
          /\ ~(s.mode = "ack_w") /\ ~(s.mode = "ack_r") /\ s.mode = "send" /\ ~(s.mode = "more")
      BY <1>9
    <3>2. Fallen(s) = IF s.out = 0 THEN [s EXCEPT !.mode = "mack", !.drive = 1] ELSE t
      BY <3>1 DEF Fallen
    <3> QED
      BY <1>9, <3>2
  <2>2. o \in 0 .. Bits - 1 /\ Bits - s.out + 1 \in 1 .. Bits
    <3> HIDE DEF d, t
    <3>1. s.out \in 0 .. Bits - 1 /\ s.out # 0 /\ Bits \in Nat
      BY <1>1, <1>9, I2cAssumption
    <3> QED
      BY <3>1
  <2>3. d \in Bit
    BY <2>2, <1>2
  <2> HIDE DEF d, o
  <2>4. t \in Slaves /\ t.mode = "send" /\ t.drive = d /\ t.out = o
        /\ t.bits = s.bits /\ t.heard = s.heard
    BY <2>2, <2>3, <1>1, <1>9 DEF Slaves, SlaveRecord
  <2> HIDE DEF t
  <2> QED
    BY <1>9, <2>1, <2>4 DEF d, o
<1>10. CASE \/ s.mode \in {"idle", "mack"}
            \/ s.mode \in {"addr", "recv"} /\ Len(s.bits) # Bits
  BY <1>10 DEF Fallen
<1>11. s.out # 0 <=> s.out > 0
  BY <1>1
<1> QED
  BY <1>1, <1>4, <1>5, <1>6, <1>7, <1>8, <1>9, <1>10, <1>11 DEF Modes

LEMMA RisenFields ==
  ASSUME NEW s \in Slaves, NEW d \in Bit
  PROVE  /\ Risen(s, d) \in Slaves
         /\ s.mode \in {"addr", "recv"} =>
              /\ Risen(s, d).mode = s.mode /\ Risen(s, d).bits = Append(s.bits, d)
              /\ Risen(s, d).drive = s.drive /\ Risen(s, d).heard = s.heard
         /\ s.mode = "mack" =>
              /\ Risen(s, d).mode = (IF d = 0 THEN "more" ELSE "idle")
              /\ Risen(s, d).drive = 1 /\ Risen(s, d).bits = (IF d = 0 THEN s.bits ELSE << >>)
              /\ Risen(s, d).heard = s.heard
         /\ s.mode \notin {"addr", "recv", "mack"} => Risen(s, d) = s
<1>1. /\ s \in SlaveRecord
      /\ s.mode \in Modes /\ s.bits \in Seq(Bit) /\ s.out \in 0 .. Bits - 1
      /\ s.drive \in Bit /\ s.heard \in Seq(Seq(Bit))
      /\ s.mode \in {"idle", "mack"} => s.drive = 1
  BY SlaveFields
<1>2. CASE s.mode \in {"addr", "recv"}
  <2> DEFINE v == Append(s.bits, d)
             t == [s EXCEPT !.bits = v]
  <2>1. Risen(s, d) = t
    BY <1>2 DEF Risen
  <2>2. v \in Seq(Bit)
    BY <1>1
  <2> HIDE DEF v
  <2>3. t \in Slaves /\ t.mode = s.mode /\ t.bits = v /\ t.drive = s.drive
        /\ t.heard = s.heard
    BY <2>2, <1>1, <1>2 DEF Slaves, SlaveRecord
  <2> HIDE DEF t
  <2> QED
    BY <1>2, <2>1, <2>3 DEF v
<1>3. CASE s.mode = "mack" /\ d = 0
  <2> DEFINE t == [s EXCEPT !.mode = "more"]
  <2>1. Risen(s, d) = t
    BY <1>3 DEF Risen
  <2>2. "more" \in Modes
    BY DEF Modes
  <2>3. t \in Slaves /\ t.mode = "more" /\ t.bits = s.bits /\ t.drive = s.drive
        /\ t.heard = s.heard
    BY <2>2, <1>1 DEF Slaves, SlaveRecord
  <2> HIDE DEF t
  <2> QED
    BY <1>1, <1>3, <2>1, <2>3
<1>4. CASE s.mode = "mack" /\ d # 0
  <2>1. Risen(s, d) = Free(s.heard)
    BY <1>4 DEF Risen
  <2> QED
    BY <2>1, <1>1, <1>4, FreeTypes
<1>5. CASE s.mode \notin {"addr", "recv", "mack"}
  BY <1>5 DEF Risen
<1> QED
  BY <1>2, <1>3, <1>4, <1>5

LEMMA StartedFields ==
  ASSUME NEW s \in Slaves
  PROVE  Started(s) \in Slaves /\ Started(s).mode = "addr" /\ Started(s).bits = << >>
         /\ Started(s).drive = 1 /\ Started(s).heard = s.heard
<1>1. Started(s) = [mode |-> "addr", bits |-> << >>, out |-> 0, drive |-> 1,
                    heard |-> s.heard]
  BY DEF Started, Free
<1>2. "addr" \in Modes /\ << >> \in Seq(Bit) /\ 0 \in 0 .. Bits - 1 /\ 1 \in Bit
      /\ s.heard \in Seq(Seq(Bit))
  BY SlaveFields, I2cAssumption DEF Modes, Bit
<1>3. Started(s) \in Slaves
  BY <1>1, <1>2 DEF Slaves, SlaveRecord
<1> QED
  BY <1>1, <1>3

LEMMA ReactTypes ==
  ASSUME reg \in Byte, NEW s \in Slaves, NEW c \in Bit, NEW d \in Bit, NEW c1 \in Bit,
         NEW d1 \in Bit
  PROVE  React(s, c, d, c1, d1) \in Slaves
<1>1. s.heard \in Seq(Seq(Bit))
  BY SlaveFields
<1>2. /\ Fallen(s) \in Slaves /\ Risen(s, d1) \in Slaves /\ Started(s) \in Slaves
      /\ Free(s.heard) \in Slaves
  BY <1>1, FallenFields, RisenFields, StartedFields, FreeTypes
<1> QED
  BY <1>2 DEF React

-----------------------------------------------------------------------------
(* The lines: what a change of them means to the slave. *)

LEMMA SclFalls ==
  ASSUME TypeInv, Drive(0, m_sda), m_scl = 1, ~stretch
  PROVE  m_scl' = 0 /\ m_sda' = m_sda /\ slave' = Fallen(slave)
  BY DEF Drive, React, scl, Both

LEMMA SclRises ==
  ASSUME TypeInv, Drive(1, m_sda), m_scl = 0
  PROVE  /\ m_scl' = 1 /\ m_sda' = m_sda /\ stretch' = stretch
         /\ slave' = IF stretch THEN slave ELSE Risen(slave, sda)
<1>1. /\ m_sda \in Bit /\ slave.drive \in Bit /\ stretch \in BOOLEAN
      /\ slave' = React(slave, scl, sda, Both(1, IF stretch THEN 0 ELSE 1),
                        Both(m_sda, slave.drive))
      /\ m_scl' = 1 /\ m_sda' = m_sda /\ stretch' = stretch
  BY SlaveFields DEF TypeInv, Drive
<1>2. scl = 0 /\ sda = Both(m_sda, slave.drive)
  BY DEF scl, sda, Both
<1> QED
  BY <1>1, <1>2 DEF React, Both

LEMMA SclSame ==
  ASSUME TypeInv, Drive(m_scl, m_sda)
  PROVE  m_scl' = m_scl /\ m_sda' = m_sda /\ stretch' = stretch /\ slave' = slave
<1>1. /\ m_scl \in Bit /\ m_sda \in Bit /\ slave.drive \in Bit /\ stretch \in BOOLEAN
      /\ slave' = React(slave, scl, sda, Both(m_scl, IF stretch THEN 0 ELSE 1),
                        Both(m_sda, slave.drive))
      /\ m_scl' = m_scl /\ m_sda' = m_sda
      /\ stretch' = stretch \/ (scl = 1 /\ m_scl = 0)
  BY SlaveFields DEF TypeInv, Drive
<1> QED
  BY <1>1 DEF React, Both, scl, sda, Bit

LEMMA SdaUnheard ==
  ASSUME TypeInv, NEW d \in Bit, Drive(m_scl, d), m_scl = 0
  PROVE  m_scl' = m_scl /\ m_sda' = d /\ stretch' = stretch /\ slave' = slave
  BY DEF Drive, React, Both, scl

LEMMA SdaFalls ==
  ASSUME TypeInv, Drive(m_scl, 0), m_scl = 1, m_sda = 1, ~stretch, slave.drive = 1
  PROVE  m_scl' = 1 /\ m_sda' = 0 /\ stretch' = stretch /\ slave' = Started(slave)
  BY DEF Drive, React, Both, scl, sda

LEMMA SdaRises ==
  ASSUME TypeInv, Drive(m_scl, 1), m_scl = 1, m_sda = 0, ~stretch, slave.drive = 1
  PROVE  m_scl' = 1 /\ m_sda' = 1 /\ stretch' = stretch /\ slave' = Free(slave.heard)
  BY DEF Drive, React, Both, scl, sda

LEMMA SclLetGo ==
  ASSUME TypeInv, Unstretch
  PROVE  slave' = IF m_scl = 1 THEN Risen(slave, sda) ELSE slave
<1>1. m_scl \in Bit /\ m_sda \in Bit /\ slave.drive \in Bit
      /\ slave' = React(slave, scl, sda, m_scl, sda) /\ stretch
  BY SlaveFields DEF TypeInv, Unstretch
<1> QED
  BY <1>1 DEF React, Both, scl, sda, Bit

LEMMA DriveTypes ==
  ASSUME TypeInv, NEW c \in Bit, NEW d \in Bit, Drive(c, d)
  PROVE  slave' \in Slaves /\ m_scl' \in Bit /\ m_sda' \in Bit /\ stretch' \in BOOLEAN
<1>1. slave \in Slaves /\ reg \in Byte /\ slave.drive \in Bit /\ stretch \in BOOLEAN
  BY SlaveFields DEF TypeInv
<1>2. \A x, y : Both(x, y) \in Bit
  BY DEF Both, Bit
<1>3. scl \in Bit /\ sda \in Bit
  BY <1>2 DEF scl, sda
<1>4. slave' = React(slave, scl, sda, Both(c, IF stretch THEN 0 ELSE 1),
                     Both(d, slave.drive))
      /\ m_scl' = c /\ m_sda' = d /\ stretch' \in BOOLEAN
  BY <1>1 DEF Drive
<1>5. React(slave, scl, sda, Both(c, IF stretch THEN 0 ELSE 1),
            Both(d, slave.drive)) \in Slaves
  BY <1>1, <1>2, <1>3, ReactTypes
<1> QED
  BY <1>4, <1>5

LEMMA InitTypes ==
  ASSUME Init PROVE TypeInv
<1>1. << >> \in Seq(Seq(Bit)) /\ << >> \in Seq(Bit)
  OBVIOUS
<1>2. slave \in Slaves
  BY <1>1, FreeTypes DEF Init
<1> QED
  BY <1>1, <1>2, I2cAssumption DEF Init, TypeInv, Bit, Modes, None

\* The place, and what is driven there.
LEMMA InOperation ==
  ASSUME TypeInv, PlaceInv, Running
  PROVE  /\ op # None /\ op \in Transfers \cup {Recovery}
         /\ call \in 1 .. Len(Calls) /\ Len(Calls) \in Nat
         /\ Calls \in Seq(CallType)
         /\ Calls[call] \in CallType /\ Primitive = Calls[call].do
         /\ Primitive \in {"start", "stop", "write", "read", "recover"}
         /\ op \in Transfers => Primitive # "recover" /\ Len(Calls) > 1
                                /\ Calls[Len(Calls)].do = "stop"
         /\ op = Recovery => Primitive = "recover" /\ call = 1
         /\ Primitive = "stop" <=> op \in Transfers /\ call = Len(Calls)
         /\ Primitive = "write" => Calls[call].byte \in Byte
<1>1. call \in 1 .. Len(Calls)
  BY DEF PlaceInv
<1>2. op # None
  BY <1>1, OtherCalls
<1>3. op \in Transfers \cup {Recovery}
  BY <1>2 DEF TypeInv
<1>4. CASE op \in Transfers
  <2>1. Calls \in Seq(CallType) /\ Calls[call] \in CallType
    BY <1>1, <1>4, CallsOf
  <2>2. /\ Len(Calls) \in Nat /\ Len(Calls) > 1 /\ Calls[Len(Calls)].do = "stop"
        /\ call < Len(Calls) => NextOf(call)
    BY <1>1, <1>4, CallFacts
  <2>3. op # Recovery
    BY <1>4 DEF Transfers, TransferNames, Recovery, Transfer
  <2>4. Primitive \in {"start", "stop", "write", "read"} /\ Primitive = Calls[call].do
    <3>1. CASE call < Len(Calls)
      BY <2>2, <3>1 DEF NextOf, Primitive
    <3>2. CASE call = Len(Calls)
      BY <2>2, <3>2 DEF Primitive
    <3> QED
      BY <1>1, <2>2, <3>1, <3>2
  <2>5. Primitive = "stop" <=> call = Len(Calls)
    <3>1. CASE call < Len(Calls)
      BY <2>2, <3>1 DEF NextOf, Primitive
    <3>2. CASE call = Len(Calls)
      BY <2>2, <3>2 DEF Primitive
    <3> QED
      BY <1>1, <2>2, <3>1, <3>2
  <2>6. Primitive = "write" => Calls[call].byte \in Byte
    <3>1. CASE call < Len(Calls)
      BY <2>2, <3>1 DEF NextOf, Primitive
    <3>2. CASE call = Len(Calls)
      BY <2>2, <3>2 DEF Primitive
    <3> QED
      BY <1>1, <2>2, <3>1, <3>2
  <2> QED
    BY <1>1, <1>2, <1>3, <1>4, <2>1, <2>2, <2>3, <2>4, <2>5, <2>6 DEF CallType
<1>5. CASE op = Recovery
  <2>1. Calls = <<Plain("recover")>> /\ Len(Calls) = 1
    BY <1>5, OtherCalls
  <2>2. call = 1
    BY <1>1, <2>1
  <2>3. Plain("recover") \in CallType
    BY DEF Plain, CallType
  <2>4. op \notin Transfers
    BY <1>5 DEF Transfers, TransferNames, Recovery, Transfer
  <2>5. Primitive = "recover"
    BY <2>1, <2>2 DEF Primitive, Plain
  <2>6. Calls \in Seq(CallType)
    BY <2>1, <2>3
  <2>7. Calls[call] \in CallType
    BY <2>1, <2>2, <2>3
  <2> QED
    BY <1>1, <1>2, <1>3, <1>5, <2>1, <2>2, <2>4, <2>5, <2>6, <2>7 DEF CallType, Primitive
<1> QED
  BY <1>3, <1>4, <1>5

-----------------------------------------------------------------------------
(* The place. *)

Step == SetLine \/ AwaitScl \/ ReadSda

WellShaped(p) ==
  LET l == Loop(p)
      n == Len(Code(p))
  IN /\ n \in Nat /\ l.first \in Nat /\ l.last \in Nat /\ l.rounds \in Nat
     /\ 1 <= l.first /\ l.first <= l.last /\ l.last < n /\ 1 <= l.rounds

LEMMA Shape ==
  \A p \in {"start", "stop", "write", "read", "recover"} : WellShaped(p)
<1>1. Bits \in Nat /\ Bits >= 1 /\ Pulses \in Nat /\ Pulses >= 1
  BY I2cAssumption DEF Pulses
<1>2. WellShaped("start")
  <2> DEFINE n == Len(Code("start"))  f == Loop("start").first  l == Loop("start").last
             r == Loop("start").rounds
  <2>a. n = 5
    BY CodeFacts
  <2>b. l = 1
    BY CodeFacts
  <2>2. f \in Nat /\ l \in Nat /\ 1 <= f /\ f <= l
    BY CodeFacts
  <2>3. r \in Nat /\ 1 <= r
    BY <1>1, CodeFacts
  <2> HIDE DEF n, f, l, r
  <2>1. n \in Nat /\ l < n
    BY <2>a, <2>b
  <2>4. n \in Nat /\ f \in Nat /\ l \in Nat /\ r \in Nat /\ 1 <= f /\ f <= l /\ l < n /\ 1 <= r
    BY <2>1, <2>2, <2>3
  <2> QED
    BY <2>4, Zenon DEF WellShaped, n, f, l, r
<1>3. WellShaped("stop")
  <2> DEFINE n == Len(Code("stop"))  f == Loop("stop").first  l == Loop("stop").last
             r == Loop("stop").rounds
  <2>a. n = 4
    BY CodeFacts
  <2>b. l = 1
    BY CodeFacts
  <2>2. f \in Nat /\ l \in Nat /\ 1 <= f /\ f <= l
    BY CodeFacts
  <2>3. r \in Nat /\ 1 <= r
    BY <1>1, CodeFacts
  <2> HIDE DEF n, f, l, r
  <2>1. n \in Nat /\ l < n
    BY <2>a, <2>b
  <2>4. n \in Nat /\ f \in Nat /\ l \in Nat /\ r \in Nat /\ 1 <= f /\ f <= l /\ l < n /\ 1 <= r
    BY <2>1, <2>2, <2>3
  <2> QED
    BY <2>4, Zenon DEF WellShaped, n, f, l, r
<1>4. WellShaped("write")
  <2> DEFINE n == Len(Code("write"))  f == Loop("write").first  l == Loop("write").last
             r == Loop("write").rounds
  <2>a. n = 9
    BY CodeFacts
  <2>b. l = 4
    BY CodeFacts
  <2>2. f \in Nat /\ l \in Nat /\ 1 <= f /\ f <= l
    BY CodeFacts
  <2>3. r \in Nat /\ 1 <= r
    BY <1>1, CodeFacts
  <2> HIDE DEF n, f, l, r
  <2>1. n \in Nat /\ l < n
    BY <2>a, <2>b
  <2>4. n \in Nat /\ f \in Nat /\ l \in Nat /\ r \in Nat /\ 1 <= f /\ f <= l /\ l < n /\ 1 <= r
    BY <2>1, <2>2, <2>3
  <2> QED
    BY <2>4, Zenon DEF WellShaped, n, f, l, r
<1>5. WellShaped("read")
  <2> DEFINE n == Len(Code("read"))  f == Loop("read").first  l == Loop("read").last
             r == Loop("read").rounds
  <2>a. n = 10
    BY CodeFacts
  <2>b. l = 5
    BY CodeFacts
  <2>2. f \in Nat /\ l \in Nat /\ 1 <= f /\ f <= l
    BY CodeFacts
  <2>3. r \in Nat /\ 1 <= r
    BY <1>1, CodeFacts
  <2> HIDE DEF n, f, l, r
  <2>1. n \in Nat /\ l < n
    BY <2>a, <2>b
  <2>4. n \in Nat /\ f \in Nat /\ l \in Nat /\ r \in Nat /\ 1 <= f /\ f <= l /\ l < n /\ 1 <= r
    BY <2>1, <2>2, <2>3
  <2> QED
    BY <2>4, Zenon DEF WellShaped, n, f, l, r
<1>6. WellShaped("recover")
  <2> DEFINE n == Len(Code("recover"))  f == Loop("recover").first  l == Loop("recover").last
             r == Loop("recover").rounds
  <2>a. n = 8
    BY CodeFacts
  <2>b. l = 5
    BY CodeFacts
  <2>2. f \in Nat /\ l \in Nat /\ 1 <= f /\ f <= l
    BY CodeFacts
  <2>3. r \in Nat /\ 1 <= r
    BY <1>1, CodeFacts
  <2> HIDE DEF n, f, l, r
  <2>1. n \in Nat /\ l < n
    BY <2>a, <2>b
  <2>4. n \in Nat /\ f \in Nat /\ l \in Nat /\ r \in Nat /\ 1 <= f /\ f <= l /\ l < n /\ 1 <= r
    BY <2>1, <2>2, <2>3
  <2> QED
    BY <2>4, Zenon DEF WellShaped, n, f, l, r
<1> QED
  BY <1>2, <1>3, <1>4, <1>5, <1>6

\* The lines by number.
LEMMA NextLine ==
  ASSUME TypeInv, PlaceInv, Running
  PROVE  /\ line \in Nat /\ round \in Nat
         /\ line \in 1 .. Len(Code(Primitive)) /\ round \in 1 .. Loop(Primitive).rounds
         /\ Primitive = "start" =>
              /\ round = 1
              /\ \/ line = 1 /\ next = "sda_release"
                 \/ line = 2 /\ next = "scl_release"
                 \/ line = 3 /\ next = "wait"
                 \/ line = 4 /\ next = "sda_low"
                 \/ line = 5 /\ next = "scl_low"
         /\ Primitive = "stop" =>
              /\ round = 1
              /\ \/ line = 1 /\ next = "sda_low"
                 \/ line = 2 /\ next = "scl_release"
                 \/ line = 3 /\ next = "wait"
                 \/ line = 4 /\ next = "sda_release"
         /\ Primitive = "write" =>
              \/ line = 1 /\ next = "sda_bit"
              \/ line = 2 /\ next = "scl_release"
              \/ line = 3 /\ next = "wait"
              \/ line = 4 /\ next = "scl_low"
              \/ line = 5 /\ next = "sda_release"
              \/ line = 6 /\ next = "scl_release"
              \/ line = 7 /\ next = "wait"
              \/ line = 8 /\ next = "read_ack"
              \/ line = 9 /\ next = "scl_low"
         /\ Primitive = "read" =>
              \/ line = 1 /\ next = "sda_release"
              \/ line = 2 /\ next = "scl_release"
              \/ line = 3 /\ next = "wait"
              \/ line = 4 /\ next = "read_bit"
              \/ line = 5 /\ next = "scl_low"
              \/ line = 6 /\ next = "sda_ack"
              \/ line = 7 /\ next = "scl_release"
              \/ line = 8 /\ next = "wait"
              \/ line = 9 /\ next = "scl_low"
              \/ line = 10 /\ next = "sda_release"
         /\ Primitive = "recover" =>
              \/ line = 1 /\ next = "scl_low"
              \/ line = 2 /\ next = "sda_low"
              \/ line = 3 /\ next = "sda_release"
              \/ line = 4 /\ next = "scl_low"
              \/ line = 5 /\ next = "scl_release"
              \/ line = 6 /\ next = "sda_low"
              \/ line = 7 /\ next = "scl_release"
              \/ line = 8 /\ next = "sda_release"
<1>1. Primitive \in {"start", "stop", "write", "read", "recover"}
  BY InOperation
<1>2. line \in 1 .. Len(Code(Primitive)) /\ round \in 1 .. Loop(Primitive).rounds
  BY DEF PlaceInv
<1>3. Len(Code(Primitive)) \in Nat /\ Loop(Primitive).rounds \in Nat
  BY <1>1, Shape DEF WellShaped
<1>4. line \in Nat /\ round \in Nat
  BY <1>2, <1>3
<1>5. ASSUME Primitive = "start"
      PROVE  /\ round = 1
             /\ \/ line = 1 /\ next = "sda_release"
                \/ line = 2 /\ next = "scl_release"
                \/ line = 3 /\ next = "wait"
                \/ line = 4 /\ next = "sda_low"
                \/ line = 5 /\ next = "scl_low"
  <2>1. next = i2c_start[line] /\ line \in 1 .. 5
    BY <1>2, <1>5, CodeFacts DEF next
  <2>2. line = 1 \/ line = 2 \/ line = 3 \/ line = 4 \/ line = 5
    BY <2>1
  <2>3. round = 1
    BY <1>2, <1>5, CodeFacts
  <2> QED
    BY <2>1, <2>2, <2>3 DEF i2c_start
<1>6. ASSUME Primitive = "stop"
      PROVE  /\ round = 1
             /\ \/ line = 1 /\ next = "sda_low"
                \/ line = 2 /\ next = "scl_release"
                \/ line = 3 /\ next = "wait"
                \/ line = 4 /\ next = "sda_release"
  <2>1. next = i2c_stop[line] /\ line \in 1 .. 4
    BY <1>2, <1>6, CodeFacts DEF next
  <2>2. line = 1 \/ line = 2 \/ line = 3 \/ line = 4
    BY <2>1
  <2>3. round = 1
    BY <1>2, <1>6, CodeFacts
  <2> QED
    BY <2>1, <2>2, <2>3 DEF i2c_stop
<1>7. ASSUME Primitive = "write"
      PROVE  \/ line = 1 /\ next = "sda_bit"
             \/ line = 2 /\ next = "scl_release"
             \/ line = 3 /\ next = "wait"
             \/ line = 4 /\ next = "scl_low"
             \/ line = 5 /\ next = "sda_release"
             \/ line = 6 /\ next = "scl_release"
             \/ line = 7 /\ next = "wait"
             \/ line = 8 /\ next = "read_ack"
             \/ line = 9 /\ next = "scl_low"
  <2>1. next = i2c_write_byte[line] /\ line \in 1 .. 9
    BY <1>2, <1>7, CodeFacts DEF next
  <2>2. line = 1 \/ line = 2 \/ line = 3 \/ line = 4 \/ line = 5 \/ line = 6 \/ line = 7 \/ line = 8 \/ line = 9
    BY <2>1
  <2> QED
    BY <2>1, <2>2 DEF i2c_write_byte
<1>8. ASSUME Primitive = "read"
      PROVE  \/ line = 1 /\ next = "sda_release"
             \/ line = 2 /\ next = "scl_release"
             \/ line = 3 /\ next = "wait"
             \/ line = 4 /\ next = "read_bit"
             \/ line = 5 /\ next = "scl_low"
             \/ line = 6 /\ next = "sda_ack"
             \/ line = 7 /\ next = "scl_release"
             \/ line = 8 /\ next = "wait"
             \/ line = 9 /\ next = "scl_low"
             \/ line = 10 /\ next = "sda_release"
  <2>1. next = i2c_read_byte[line] /\ line \in 1 .. 10
    BY <1>2, <1>8, CodeFacts DEF next
  <2>2. line = 1 \/ line = 2 \/ line = 3 \/ line = 4 \/ line = 5 \/ line = 6 \/ line = 7 \/ line = 8 \/ line = 9 \/ line = 10
    BY <2>1
  <2> QED
    BY <2>1, <2>2 DEF i2c_read_byte
<1>9. ASSUME Primitive = "recover"
      PROVE  \/ line = 1 /\ next = "scl_low"
             \/ line = 2 /\ next = "sda_low"
             \/ line = 3 /\ next = "sda_release"
             \/ line = 4 /\ next = "scl_low"
             \/ line = 5 /\ next = "scl_release"
             \/ line = 6 /\ next = "sda_low"
             \/ line = 7 /\ next = "scl_release"
             \/ line = 8 /\ next = "sda_release"
  <2>1. next = op_recover[line] /\ line \in 1 .. 8
    BY <1>2, <1>9, CodeFacts DEF next
  <2>2. line = 1 \/ line = 2 \/ line = 3 \/ line = 4 \/ line = 5 \/ line = 6 \/ line = 7 \/ line = 8
    BY <2>1
  <2> QED
    BY <2>1, <2>2 DEF op_recover
<1> QED
  BY <1>2, <1>4, <1>5, <1>6, <1>7, <1>8, <1>9

\* Where the ways on lead.
LEMMA Onward ==
  ASSUME TypeInv, PlaceInv, Running, Step
  PROVE  /\ op' = op /\ reg' = reg /\ from' = from
         /\ \/ Advance /\ line # Len(Code(Primitive)) /\ (b' = b \/ b' = Append(b, sda))
            \/ EndCall /\ (line = Len(Code(Primitive)) \/ Primitive = "read")
            \/ Primitive = "write" /\ Abandon
<1>1. op' = op /\ reg' = reg /\ from' = from
  BY DEF Step, SetLine, AwaitScl, ReadSda
<1>2. Proceed => \/ Advance /\ line # Len(Code(Primitive)) /\ b' = b
                 \/ EndCall /\ line = Len(Code(Primitive))
  BY DEF Proceed
<1>3. CASE SetLine
  BY <1>1, <1>2, <1>3 DEF SetLine
<1>4. CASE AwaitScl
  BY <1>1, <1>2, <1>4 DEF AwaitScl
<1>5. CASE ReadSda
  <2>1. Primitive \in {"start", "stop", "write", "read", "recover"}
    BY InOperation
  <2>2. next \in {"read_bit", "read_ack"} /\ Advance /\ (b' = b \/ b' = Append(b, sda))
    BY <1>5 DEF ReadSda
  <2>3. line # Len(Code(Primitive))
    <3>1. CASE Primitive = "start"
      <4>1. next \notin {"read_bit", "read_ack"}
        BY <3>1, NextLine
      <4> QED
        BY <2>2, <4>1
    <3>2. CASE Primitive = "stop"
      <4>1. next \notin {"read_bit", "read_ack"}
        BY <3>2, NextLine
      <4> QED
        BY <2>2, <4>1
    <3>3. CASE Primitive = "write"
      <4>1. line = 8
        BY <2>2, <3>3, NextLine
      <4>2. Len(Code(Primitive)) = 9
        BY <3>3, CodeFacts
      <4> QED
        BY <4>1, <4>2
    <3>4. CASE Primitive = "read"
      <4>1. line = 4
        BY <2>2, <3>4, NextLine
      <4>2. Len(Code(Primitive)) = 10
        BY <3>4, CodeFacts
      <4> QED
        BY <4>1, <4>2
    <3>5. CASE Primitive = "recover"
      BY <2>2, <3>5, NextLine, CodeFacts
    <3> QED
      BY <2>1, <3>1, <3>2, <3>3, <3>4, <3>5
  <2> QED
    BY <1>1, <2>2, <2>3
<1> QED
  BY <1>3, <1>4, <1>5 DEF Step

LEMMA Advanced ==
  ASSUME TypeInv, PlaceInv, Running, op' = op, Advance
  PROVE  /\ call' = call /\ rx' = rx /\ Running' /\ Primitive' = Primitive
         /\ Calls' = Calls
         /\ IF line = Loop(Primitive).last /\ round < Loop(Primitive).rounds
            THEN line' = Loop(Primitive).first /\ round' = round + 1
            ELSE line' = line + 1 /\ round' = round
<1>1. Calls' = Calls
  BY SameOp
<1>2. call' = call /\ rx' = rx
  BY DEF Advance
<1>3. Running' /\ Primitive' = Primitive
  BY <1>1, <1>2 DEF Running, Primitive
<1> QED
  BY <1>1, <1>2, <1>3 DEF Advance

LEMMA PlaceTypes ==
  ASSUME TypeInv, PlaceInv, Running, Step
  PROVE  b' \in Seq(Bit) /\ rx' \in Seq(Seq(Bit))
<1>1. b \in Seq(Bit) /\ rx \in Seq(Seq(Bit)) /\ sda \in Bit
  BY DEF TypeInv, sda, Both, Bit
<1>2. << >> \in Seq(Bit) /\ Append(b, sda) \in Seq(Bit) /\ Append(rx, b) \in Seq(Seq(Bit))
  BY <1>1
<1>3. CASE Advance /\ (b' = b \/ b' = Append(b, sda))
  BY <1>1, <1>2, <1>3 DEF Advance
<1>4. CASE EndCall
  BY <1>1, <1>2, <1>4 DEF EndCall, Abandon, Leave
<1>5. CASE Abandon
  BY <1>1, <1>2, <1>5 DEF Abandon, Leave
<1> QED
  BY <1>3, <1>4, <1>5, Onward

\* Where the driving of the lines bears on the place.
Driven ==
  IF Running THEN /\ Primitive = "stop" /\ line \in {3, 4} => m_scl = 1
                  /\ Primitive = "recover" /\ line \in {6, 7, 8} => m_scl = 1
  ELSE m_scl = 1 /\ m_sda = 1

Counted ==
  IF Running
  THEN /\ call \in 1 .. Len(Calls)
       /\ line \in 1 .. Len(Code(Primitive))
       /\ round \in 1 .. Loop(Primitive).rounds
       /\ line < Loop(Primitive).first => round = 1
       /\ line > Loop(Primitive).last => round = Loop(Primitive).rounds
       /\ line = 1 /\ round = 1 => b = << >>
  ELSE call = Len(Calls) + 1 /\ line = 1 /\ round = 1 /\ b = << >>

LEMMA CountedAfter ==
  ASSUME TypeInv, PlaceInv, Running, Step
  PROVE  Counted'
<1>1. /\ op' = op /\ Calls' = Calls
      /\ call \in 1 .. Len(Calls) /\ Len(Calls) \in Nat
      /\ Primitive \in {"start", "stop", "write", "read", "recover"}
  BY Onward, SameOp, InOperation
<1>2. WellShaped(Primitive)
  BY <1>1, Shape
<1>3. CASE Advance /\ line # Len(Code(Primitive)) /\ (b' = b \/ b' = Append(b, sda))
  <2>1. /\ call' = call /\ Running' /\ Primitive' = Primitive
        /\ IF line = Loop(Primitive).last /\ round < Loop(Primitive).rounds
           THEN line' = Loop(Primitive).first /\ round' = round + 1
           ELSE line' = line + 1 /\ round' = round
    BY <1>1, <1>3, Advanced
  <2> DEFINE n == Len(Code(Primitive))  f == Loop(Primitive).first
             l == Loop(Primitive).last  r == Loop(Primitive).rounds
  <2>2. /\ line \in 1 .. n /\ round \in 1 .. r
        /\ line < f => round = 1
        /\ line > l => round = r
    BY DEF PlaceInv
  <2>3. /\ n \in Nat /\ f \in Nat /\ l \in Nat /\ r \in Nat
        /\ 1 <= f /\ f <= l /\ l < n /\ 1 <= r /\ line # n
        /\ IF line = l /\ round < r THEN line' = f /\ round' = round + 1
           ELSE line' = line + 1 /\ round' = round
    BY <1>2, <1>3, <2>1 DEF WellShaped
  <2> HIDE DEF n, f, l, r
  <2>4. /\ line' \in 1 .. n /\ round' \in 1 .. r
        /\ line' < f => round' = 1
        /\ line' > l => round' = r
        /\ ~(line' = 1 /\ round' = 1)
    <3>1. CASE line = l /\ round < r
      BY <3>1, <2>2, <2>3
    <3>2. CASE ~(line = l /\ round < r)
      BY <3>2, <2>2, <2>3
    <3> QED
      BY <3>1, <3>2
  <2>5. /\ line' \in 1 .. Len(Code(Primitive)) /\ round' \in 1 .. Loop(Primitive).rounds
        /\ line' < Loop(Primitive).first => round' = 1
        /\ line' > Loop(Primitive).last => round' = Loop(Primitive).rounds
        /\ ~(line' = 1 /\ round' = 1)
    BY <2>4 DEF n, f, l, r
  <2> QED
    BY <1>1, <2>1, <2>5 DEF Counted
<1>4. ASSUME NEW c \in 1 .. Len(Calls), Leave(c)
      PROVE  Counted'
  <2>1. call' = c /\ line' = 1 /\ round' = 1 /\ b' = << >> /\ Running'
    BY <1>1, <1>4 DEF Leave, Running
  <2>2. Primitive' = Calls[c].do
    BY <1>1, <2>1 DEF Primitive
  <2>3. \A i \in 1 .. Len(Calls) :
          Calls[i].do \in {"start", "stop", "write", "read", "recover"}
    <3>1. Calls \in Seq(CallType)
      BY InOperation
    <3>2. ASSUME NEW i \in 1 .. Len(Calls) PROVE Calls[i] \in CallType
      BY <3>1
    <3> QED
      BY <3>2 DEF CallType
  <2>4. WellShaped(Primitive')
    BY <2>2, <2>3, <1>4, Shape
  <2>5. 1 \in 1 .. Len(Code(Primitive')) /\ 1 \in 1 .. Loop(Primitive').rounds
        /\ ~(1 > Loop(Primitive').last)
    BY <2>4 DEF WellShaped
  <2> QED
    BY <1>1, <1>4, <2>1, <2>5 DEF Counted
<1>5. CASE EndCall
  <2>1. Leave(call + 1) \/ Leave(Len(Calls))
    BY <1>5 DEF EndCall, Abandon
  <2>2. CASE call = Len(Calls) /\ Leave(call + 1)
    <3>1. call' = Len(Calls) + 1 /\ line' = 1 /\ round' = 1 /\ b' = << >> /\ ~Running'
      BY <1>1, <2>2 DEF Leave, Running
    <3> QED
      BY <1>1, <3>1 DEF Counted
  <2>3. CASE call # Len(Calls) /\ Leave(call + 1)
    <3>1. call + 1 \in 1 .. Len(Calls)
      BY <1>1, <2>3
    <3> QED
      BY <2>3, <3>1, <1>4
  <2>4. CASE Leave(Len(Calls))
    <3>1. Len(Calls) \in 1 .. Len(Calls)
      BY <1>1
    <3> QED
      BY <2>4, <3>1, <1>4
  <2> QED
    BY <2>1, <2>2, <2>3, <2>4
<1>6. CASE Abandon
  <2>1. Leave(Len(Calls)) /\ Len(Calls) \in 1 .. Len(Calls)
    BY <1>1, <1>6 DEF Abandon
  <2> QED
    BY <2>1, <1>4
<1> QED
  BY <1>3, <1>5, <1>6, Onward

LEMMA DrivenAfter ==
  ASSUME TypeInv, PlaceInv, Running, Step
  PROVE  Driven'
<1>1. /\ op' = op /\ Calls' = Calls
      /\ call \in 1 .. Len(Calls) /\ Len(Calls) \in Nat
      /\ op \in Transfers \cup {Recovery}
  BY Onward, SameOp, InOperation
<1>2. CASE Advance /\ line # Len(Code(Primitive))
  <2>1. /\ call' = call /\ Running' /\ Primitive' = Primitive
        /\ IF line = Loop(Primitive).last /\ round < Loop(Primitive).rounds
           THEN line' = Loop(Primitive).first /\ round' = round + 1
           ELSE line' = line + 1 /\ round' = round
    BY <1>1, <1>2, Advanced
  <2>2. ASSUME Primitive = "stop", line' \in {3, 4} PROVE m_scl' = 1
    <3>1. line' = line + 1 /\ round = 1 /\ line \in Nat
      BY <2>1, <2>2, CodeFacts, NextLine
    <3>2. line \in {2, 3}
      BY <2>2, <3>1
    <3>3. CASE line = 2
      <4>1. next = "scl_release"
        BY <2>2, <3>3, NextLine
      <4>2. Drive(1, m_sda)
        BY <4>1 DEF Step, SetLine, AwaitScl, ReadSda
      <4> QED
        BY <4>2 DEF Drive
    <3>4. CASE line = 3
      <4>1. next = "wait" /\ m_scl = 1
        BY <2>2, <3>4, NextLine DEF PlaceInv
      <4>2. m_scl' = m_scl
        BY <4>1 DEF Step, SetLine, AwaitScl, ReadSda, lines
      <4> QED
        BY <4>1, <4>2
    <3> QED
      BY <3>2, <3>3, <3>4
  <2>3. ASSUME Primitive = "recover", line' \in {6, 7, 8} PROVE m_scl' = 1
    <3>1. line \in Nat /\ (line' = 4 \/ line' = line + 1)
      BY <2>1, <2>3, CodeFacts, NextLine
    <3>2. line \in {5, 6, 7}
      BY <2>3, <3>1
    <3>3. CASE line \in {5, 7}
      <4>1. next = "scl_release"
        BY <2>3, <3>3, NextLine
      <4>2. Drive(1, m_sda)
        BY <4>1 DEF Step, SetLine, AwaitScl, ReadSda
      <4> QED
        BY <4>2 DEF Drive
    <3>4. CASE line = 6
      <4>1. next = "sda_low" /\ m_scl = 1
        BY <2>3, <3>4, NextLine DEF PlaceInv
      <4>2. Drive(m_scl, 0)
        BY <4>1 DEF Step, SetLine, AwaitScl, ReadSda
      <4> QED
        BY <4>1, <4>2 DEF Drive
    <3> QED
      BY <3>2, <3>3, <3>4
  <2> QED
    BY <2>1, <2>2, <2>3 DEF Driven
<1>3. CASE \E c \in 1 .. Len(Calls) : Leave(c)
  <2>1. line' = 1 /\ Running'
    BY <1>1, <1>3 DEF Leave, Running
  <2> QED
    BY <2>1 DEF Driven
<1>4. CASE EndCall /\ Leave(call + 1) /\ call = Len(Calls)
           /\ (line = Len(Code(Primitive)) \/ Primitive = "read")
  <2>1. Primitive \in {"stop", "recover"}
    BY <1>1, <1>4, InOperation
  <2>2. next = "sda_release" /\ m_scl = 1
    <3>1. CASE Primitive = "stop"
      <4>1. line = 4
        BY <1>4, <3>1, CodeFacts
      <4> QED
        BY <3>1, <4>1, NextLine DEF PlaceInv
    <3>2. CASE Primitive = "recover"
      <4>1. line = 8
        BY <1>4, <3>2, CodeFacts
      <4> QED
        BY <3>2, <4>1, NextLine DEF PlaceInv
    <3> QED
      BY <2>1, <3>1, <3>2
  <2>3. Drive(m_scl, 1)
    BY <2>2 DEF Step, SetLine, AwaitScl, ReadSda
  <2>4. m_scl' = 1 /\ m_sda' = 1
    BY <2>2, <2>3 DEF Drive
  <2>5. ~Running'
    BY <1>1, <1>4 DEF Leave, Running
  <2> QED
    BY <2>4, <2>5 DEF Driven
<1>5. EndCall => \/ Leave(call + 1) /\ (call = Len(Calls) \/ call + 1 \in 1 .. Len(Calls))
                 \/ Leave(Len(Calls)) /\ Len(Calls) \in 1 .. Len(Calls)
  BY <1>1 DEF EndCall, Abandon
<1>6. Abandon => Leave(Len(Calls)) /\ Len(Calls) \in 1 .. Len(Calls)
  BY <1>1 DEF Abandon
<1> QED
  BY <1>2, <1>3, <1>4, <1>5, <1>6, Onward

LEMMA PlaceAfter ==
  ASSUME TypeInv, PlaceInv, Running, Step
  PROVE  PlaceInv'
<1>1. op' # None
  BY Onward, InOperation
<1>2. Counted' /\ Driven'
  BY CountedAfter, DrivenAfter
<1> QED
  BY <1>1, <1>2 DEF PlaceInv, Counted, Driven

-----------------------------------------------------------------------------
(* The transfers. *)

\* What a step of a sound operation does, by its line.
LEMMA Acts ==
  ASSUME TypeInv, PlaceInv, Running, Step, Sound'
  PROVE  /\ Sound /\ op' = op /\ reg' = reg
         /\ next = "sda_release" => Drive(m_scl, 1)
         /\ next = "sda_low" => Drive(m_scl, 0)
         /\ next = "sda_bit" => Drive(m_scl, Calls[call].byte[round])
         /\ next = "sda_ack" => Drive(m_scl, IF Calls[call].ack THEN 0 ELSE 1)
         /\ next = "scl_release" => Drive(1, m_sda)
         /\ next = "scl_low" => Drive(0, m_sda)
         /\ next = "wait" => m_scl = 1 /\ ~stretch
         /\ next \in {"wait", "read_bit", "read_ack"} =>
              m_scl' = m_scl /\ m_sda' = m_sda /\ slave' = slave /\ stretch' = stretch
         /\ next = "read_bit" => b' = Append(b, sda)
         /\ next # "read_bit" /\ line # Len(Code(Primitive)) => b' = b
         /\ IF line = Len(Code(Primitive)) THEN EndCall ELSE Advance
<1>1. op' = op /\ reg' = reg /\ from' = from
  BY Onward
<1>2. op \in Transfers /\ from = "idle" /\ status' = "ok"
  BY <1>1 DEF Sound
<1>3. CASE SetLine
  <2>1. status = "ok" /\ Proceed
    BY <1>2, <1>3 DEF SetLine
  <2>2. next \in {"sda_release", "sda_low", "sda_bit", "sda_ack", "scl_release", "scl_low"}
    BY <1>3 DEF SetLine
  <2>3. IF line = Len(Code(Primitive)) THEN EndCall ELSE Advance /\ b' = b
    BY <2>1 DEF Proceed
  <2>4. /\ next = "sda_release" => Drive(m_scl, 1)
        /\ next = "sda_low" => Drive(m_scl, 0)
        /\ next = "sda_bit" => Drive(m_scl, Calls[call].byte[round])
        /\ next = "sda_ack" => Drive(m_scl, IF Calls[call].ack THEN 0 ELSE 1)
        /\ next = "scl_release" => Drive(1, m_sda)
        /\ next = "scl_low" => Drive(0, m_sda)
    BY <1>3 DEF SetLine
  <2> QED
    BY <1>1, <1>2, <2>1, <2>2, <2>3, <2>4 DEF Sound
<1>4. CASE AwaitScl
  <2>1. next = "wait" /\ m_scl' = m_scl /\ m_sda' = m_sda /\ slave' = slave
        /\ stretch' = stretch
    BY <1>4 DEF AwaitScl, lines
  <2>2. scl = 1 /\ Proceed /\ status = "ok"
    <3>1. (IF status = "ok" THEN "held" ELSE status) # "ok"
      OBVIOUS
    <3> QED
      BY <1>2, <1>4, <3>1 DEF AwaitScl
  <2>3. m_scl = 1 /\ ~stretch
    BY <2>2 DEF scl, Both
  <2>4. IF line = Len(Code(Primitive)) THEN EndCall ELSE Advance /\ b' = b
    BY <2>2 DEF Proceed
  <2> QED
    BY <1>1, <1>2, <2>1, <2>2, <2>3, <2>4 DEF Sound
<1>5. CASE ReadSda
  <2>1. /\ next \in {"read_bit", "read_ack"} /\ Advance
        /\ m_scl' = m_scl /\ m_sda' = m_sda /\ slave' = slave /\ stretch' = stretch
        /\ next = "read_bit" => b' = Append(b, sda)
        /\ next # "read_bit" => b' = b
        /\ status = "ok"
    BY <1>2, <1>5 DEF ReadSda, lines
  <2>2. line # Len(Code(Primitive))
    <3>1. Primitive \in {"start", "stop", "write", "read", "recover"}
      BY InOperation
    <3>2. CASE Primitive = "write"
      <4>1. line = 8
        BY <2>1, <3>2, NextLine
      <4>2. Len(Code(Primitive)) = 9
        BY <3>2, CodeFacts
      <4> QED
        BY <4>1, <4>2
    <3>3. CASE Primitive = "read"
      <4>1. line = 4
        BY <2>1, <3>3, NextLine
      <4>2. Len(Code(Primitive)) = 10
        BY <3>3, CodeFacts
      <4> QED
        BY <4>1, <4>2
    <3>4. ~(Primitive \in {"start", "stop", "recover"})
      BY <2>1, NextLine
    <3> QED
      BY <3>1, <3>2, <3>3, <3>4
  <2> QED
    BY <1>1, <1>2, <2>1, <2>2 DEF Sound
<1> QED
  BY <1>3, <1>4, <1>5 DEF Step

LEMMA Rounds ==
  ASSUME TypeInv, PlaceInv, Running
  PROVE  /\ Primitive = "write" => round \in 1 .. Bits /\ (line > 4 => round = Bits)
         /\ Primitive = "read" => /\ round \in 1 .. Bits
                                  /\ line > 5 => round = Bits
                                  /\ line < 2 => round = 1
         /\ Primitive = "recover" => /\ round \in 1 .. Pulses
                                     /\ line > 5 => round = Pulses
                                     /\ line < 4 => round = 1
<1>1. /\ round \in 1 .. Loop(Primitive).rounds
      /\ line < Loop(Primitive).first => round = 1
      /\ line > Loop(Primitive).last => round = Loop(Primitive).rounds
  BY DEF PlaceInv
<1>2. CASE Primitive = "write"
  BY <1>1, <1>2, CodeFacts
<1>3. CASE Primitive = "read"
  BY <1>1, <1>3, CodeFacts
<1>4. CASE Primitive = "recover"
  BY <1>1, <1>4, CodeFacts
<1> QED
  BY <1>2, <1>3, <1>4

LEMMA Goes ==
  ASSUME TypeInv, PlaceInv, Running, op' = op, Advance
  PROVE  /\ Primitive \in {"start", "stop"} => line' = line + 1 /\ round' = round
         /\ Primitive = "write" => IF line = 4 /\ round < Bits
                                   THEN line' = 1 /\ round' = round + 1
                                   ELSE line' = line + 1 /\ round' = round
         /\ Primitive = "read" => IF line = 5 /\ round < Bits
                                  THEN line' = 2 /\ round' = round + 1
                                  ELSE line' = line + 1 /\ round' = round
         /\ Primitive = "recover" => IF line = 5 /\ round < Pulses
                                     THEN line' = 4 /\ round' = round + 1
                                     ELSE line' = line + 1 /\ round' = round
<1>1. IF line = Loop(Primitive).last /\ round < Loop(Primitive).rounds
      THEN line' = Loop(Primitive).first /\ round' = round + 1
      ELSE line' = line + 1 /\ round' = round
  BY Advanced
<1>2. CASE Primitive \in {"start", "stop"}
  <2>1. round = 1 /\ Loop(Primitive).rounds = 1
    BY <1>2, CodeFacts, NextLine
  <2> QED
    BY <1>1, <1>2, <2>1
<1>3. CASE Primitive = "write"
  BY <1>1, <1>3, CodeFacts
<1>4. CASE Primitive = "read"
  BY <1>1, <1>4, CodeFacts
<1>5. CASE Primitive = "recover"
  BY <1>1, <1>5, CodeFacts
<1> QED
  BY <1>2, <1>3, <1>4, <1>5

\* The invariant within a call, and at the first line of the next one.
LEMMA Stays ==
  ASSUME TypeInv, PlaceInv, TransferInv, Running, Sound, op' = op, reg' = reg, Advance,
         Primitive = "start" => InStart', Primitive = "write" => InWrite',
         Primitive = "read" => InRead', Primitive = "stop" => InStop'
  PROVE  TransferInv'
<1>1. call' = call /\ rx' = rx /\ Running' /\ Primitive' = Primitive
  BY Advanced
<1>2. rx = Copies(reg, RxAt(op, call))
  BY DEF TransferInv
<1>3. rx' = Copies(reg', RxAt(op', call'))
  BY <1>1, <1>2
<1> QED
  BY <1>1, <1>3 DEF TransferInv

LEMMA Enters ==
  ASSUME TypeInv, PlaceInv, Running, op \in Transfers, op' = op, reg' = reg,
         call < Len(Calls), Leave(call + 1),
         rx' = Copies(reg, RxAt(op, call + 1)),
         slave'.heard = First(op.ws, HeardAt(op, call + 1)),
         Calls[call + 1].do = "start" =>
           slave'.mode \in {"idle", "recv"} /\ slave'.drive = 1 /\ m_sda' = 1,
         Calls[call + 1].do = "write" =>
           /\ slave'.mode = (IF Primitive = "start" THEN "addr" ELSE "recv")
           /\ slave'.drive = 1 /\ slave'.bits = << >> /\ m_scl' = 0,
         Calls[call + 1].do = "read" =>
           /\ slave'.mode = "send" /\ slave'.drive = reg[1] /\ slave'.out = Bits - 1
           /\ slave'.bits = << >> /\ m_scl' = 0 /\ m_sda' = 1,
         Calls[call + 1].do = "stop" =>
           slave'.mode \in {"idle", "recv"} /\ slave'.drive = 1 /\ m_scl' = 0
  PROVE  TransferInv'
<1>1. Calls' = Calls /\ call' = call + 1 /\ line' = 1 /\ round' = 1 /\ b' = << >>
  BY SameOp DEF Leave
<1>2. call \in 1 .. Len(Calls) /\ Len(Calls) \in Nat
  BY InOperation
<1>3. call + 1 \in 1 .. Len(Calls) /\ call' - 1 = call
  BY <1>1, <1>2
<1>4. Running' /\ Primitive' = Calls[call + 1].do
  BY <1>1, <1>3 DEF Running, Primitive
<1>5. rx' = Copies(reg', RxAt(op', call')) /\ slave'.heard = First(op'.ws, HeardAt(op', call'))
  BY <1>1
<1>6. ASSUME Calls[call + 1].do = "start" PROVE InStart'
  BY <1>1, <1>5, <1>6 DEF InStart
<1>7. ASSUME Calls[call + 1].do = "write" PROVE InWrite'
  <2>1. Addressing' <=> Primitive = "start"
    BY <1>1, <1>3 DEF Addressing, Primitive
  <2>2. First(Calls[call + 1].byte, 0) = << >>
    BY FirstNone
  <2>3. Calls'[call'].byte = Calls[call + 1].byte /\ round' - 1 = 0
    BY <1>1
  <2> QED
    BY <1>1, <1>5, <1>7, <2>1, <2>2, <2>3 DEF InWrite
<1>8. ASSUME Calls[call + 1].do = "read" PROVE InRead'
  <2>1. First(reg, 0) = << >> /\ round' - 1 = 0 /\ Bits - round' = Bits - 1
    BY <1>1, FirstNone
  <2> QED
    BY <1>1, <1>5, <1>8, <2>1 DEF InRead
<1>9. ASSUME Calls[call + 1].do = "stop" PROVE InStop'
  <2>1. call + 1 = Len(Calls)
    <3>1. call + 1 < Len(Calls) => NextOf(call + 1)
      BY <1>3, CallFacts
    <3>2. NextOf(call + 1) => Calls[call + 1].do # "stop"
      BY DEF NextOf
    <3> QED
      BY <1>2, <1>3, <1>9, <3>1, <3>2
  <2>2. HeardAt(op, call + 1) = Len(op.ws)
    BY <2>1, <1>3, CallFacts
  <2>3. op.ws \in Seq(Byte)
    BY DEF Transfers
  <2>4. First(op.ws, Len(op.ws)) = op.ws
    BY <2>3, FirstAll
  <2> QED
    BY <1>1, <1>5, <1>9, <2>2, <2>4 DEF InStop
<1> QED
  BY <1>4, <1>5, <1>6, <1>7, <1>8, <1>9 DEF TransferInv

LEMMA SlaveNow ==
  ASSUME TypeInv
  PROVE  /\ m_scl \in Bit /\ m_sda \in Bit /\ stretch \in BOOLEAN /\ reg \in Byte
         /\ slave \in Slaves /\ slave.mode \in Modes /\ slave.bits \in Seq(Bit)
         /\ slave.drive \in Bit /\ slave.heard \in Seq(Seq(Bit))
         /\ slave.mode \in {"idle", "mack"} => slave.drive = 1
         /\ sda \in Bit /\ (slave.drive = 1 => sda = m_sda) /\ (m_sda = 1 => sda = slave.drive)
         /\ (slave.drive = 0 => sda = 0)
<1>1. /\ m_scl \in Bit /\ m_sda \in Bit /\ stretch \in BOOLEAN /\ reg \in Byte
      /\ slave \in Slaves
  BY DEF TypeInv
<1>2. /\ slave.mode \in Modes /\ slave.bits \in Seq(Bit)
      /\ slave.drive \in Bit /\ slave.heard \in Seq(Seq(Bit))
      /\ slave.mode \in {"idle", "mack"} => slave.drive = 1
  BY <1>1, SlaveFields
<1>3. sda \in Bit /\ (slave.drive = 1 => sda = m_sda) /\ (m_sda = 1 => sda = slave.drive)
      /\ (slave.drive = 0 => sda = 0)
  BY <1>1, <1>2 DEF sda, Both, Bit
<1> QED
  BY <1>1, <1>2, <1>3

LEMMA StartAfter ==
  ASSUME TypeInv, PlaceInv, TransferInv, Running, Step, Sound', Primitive = "start"
  PROVE  TransferInv'
<1>1. InStart /\ Sound /\ op' = op /\ reg' = reg
  BY Acts DEF TransferInv
<1>2. \/ line = 1 /\ next = "sda_release"
      \/ line = 2 /\ next = "scl_release"
      \/ line = 3 /\ next = "wait"
      \/ line = 4 /\ next = "sda_low"
      \/ line = 5 /\ next = "scl_low"
  BY NextLine
<1>3. Len(Code(Primitive)) = 5
  BY CodeFacts
<1>4. slave.heard = First(op.ws, HeardAt(op, call))
  BY <1>1 DEF InStart
<1>5. CASE line # 5
  <2>1. Advance
    BY <1>3, <1>5, Acts
  <2>2. call' = call /\ line' = line + 1
    BY <2>1, <1>1, Advanced, Goes
  <2>3. slave.mode \in {"idle", "recv"} /\ slave.drive = 1 /\ m_sda = 1
        /\ (line \in {3, 4} => m_scl = 1) /\ (line = 4 => ~stretch)
    BY <1>1, <1>5 DEF InStart
  <2>4. CASE line = 1
    <3>1. Drive(m_scl, m_sda)
      BY <1>2, <2>3, <2>4, Acts
    <3>2. m_sda' = m_sda /\ slave' = slave
      BY <3>1, SclSame
    <3>3. InStart'
      BY <1>1, <1>4, <2>2, <2>3, <2>4, <3>2 DEF InStart
    <3> QED
      BY <1>1, <2>1, <3>3, Stays
  <2>5. CASE line = 2
    <3>1. Drive(1, m_sda)
      BY <1>2, <2>5, Acts
    <3>2. m_scl' = 1 /\ m_sda' = m_sda /\ slave'.mode = slave.mode /\ slave'.drive = 1
          /\ slave'.heard = slave.heard
      <4>1. CASE m_scl = 1
        BY <2>3, <3>1, <4>1, SclSame
      <4>2. CASE m_scl = 0
        <5>1. m_scl' = 1 /\ m_sda' = m_sda /\ slave' = IF stretch THEN slave ELSE Risen(slave, sda)
          BY <3>1, <4>2, SclRises
        <5>2. /\ Risen(slave, sda).mode = slave.mode /\ Risen(slave, sda).drive = 1
              /\ Risen(slave, sda).heard = slave.heard
          BY <2>3, SlaveNow, RisenFields
        <5> QED
          BY <2>3, <5>1, <5>2
      <4> QED
        BY <4>1, <4>2, SlaveNow DEF Bit
    <3>3. InStart'
      BY <1>1, <1>4, <2>2, <2>3, <2>5, <3>2 DEF InStart
    <3> QED
      BY <1>1, <2>1, <3>3, Stays
  <2>6. CASE line = 3
    <3>1. m_scl' = 1 /\ m_sda' = m_sda /\ slave' = slave /\ ~stretch'
      BY <1>2, <2>6, Acts
    <3>2. InStart'
      BY <1>1, <1>4, <2>2, <2>3, <2>6, <3>1 DEF InStart
    <3> QED
      BY <1>1, <2>1, <3>2, Stays
  <2>7. CASE line = 4
    <3>1. Drive(m_scl, 0)
      BY <1>2, <2>7, Acts
    <3>2. m_scl' = 1 /\ m_sda' = 0 /\ stretch' = stretch /\ slave' = Started(slave)
      BY <2>3, <2>7, <3>1, SdaFalls
    <3>3. slave'.mode = "addr" /\ slave'.bits = << >> /\ slave'.drive = 1
          /\ slave'.heard = slave.heard
      BY <3>2, StartedFields, SlaveNow
    <3>4. InStart'
      BY <1>1, <1>4, <2>2, <2>3, <2>7, <3>2, <3>3 DEF InStart
    <3> QED
      BY <1>1, <2>1, <3>4, Stays
  <2> QED
    BY <1>2, <1>5, <2>4, <2>5, <2>6, <2>7
<1>6. CASE line = 5
  <2>1. /\ slave.mode = "addr" /\ slave.bits = << >> /\ slave.drive = 1
        /\ m_scl = 1 /\ ~stretch
    BY <1>1, <1>6 DEF InStart
  <2>2. Drive(0, m_sda)
    BY <1>2, <1>6, Acts
  <2>3. m_scl' = 0 /\ slave' = Fallen(slave)
    BY <2>1, <2>2, SclFalls
  <2>4. Len(slave.bits) # Bits
    BY <2>1, I2cAssumption
  <2>5. slave' = slave
    BY <2>1, <2>3, <2>4, FallenFields, SlaveNow
  <2>6. Leave(call + 1) /\ rx' = rx
    BY <1>3, <1>6, Acts DEF EndCall
  <2>7. op \in Transfers /\ call \in 1 .. Len(Calls) /\ call # Len(Calls)
        /\ Len(Calls) \in Nat
    BY <1>1, InOperation DEF Sound
  <2>8. NextOf(call) /\ call < Len(Calls) /\ Calls[call].do = "start"
    BY <2>7, CallFacts DEF Primitive
  <2>9. /\ Calls[call + 1].do = "write"
        /\ HeardAt(op, call + 1) = HeardAt(op, call) /\ RxAt(op, call + 1) = RxAt(op, call)
    BY <2>8 DEF NextOf
  <2>10. rx' = Copies(reg, RxAt(op, call + 1))
    BY <1>1, <2>6, <2>9 DEF TransferInv
  <2> QED
    BY <1>1, <1>4, <2>1, <2>3, <2>5, <2>6, <2>7, <2>8, <2>9, <2>10, Enters
<1> QED
  BY <1>5, <1>6

LEMMA StopAfter ==
  ASSUME TypeInv, PlaceInv, TransferInv, Running, Step, Sound', Primitive = "stop"
  PROVE  TransferInv'
<1>1. InStop /\ Sound /\ op' = op /\ reg' = reg
  BY Acts DEF TransferInv
<1>2. \/ line = 1 /\ next = "sda_low"
      \/ line = 2 /\ next = "scl_release"
      \/ line = 3 /\ next = "wait"
      \/ line = 4 /\ next = "sda_release"
  BY NextLine
<1>3. Len(Code(Primitive)) = 4
  BY CodeFacts
<1>4. /\ slave.heard = op.ws /\ slave.mode \in {"idle", "recv"} /\ slave.drive = 1
      /\ m_scl = (IF line <= 2 THEN 0 ELSE 1) /\ (line > 1 => m_sda = 0)
      /\ (line = 4 => ~stretch)
  BY <1>1 DEF InStop
<1>5. CASE line # 4
  <2>1. Advance
    BY <1>3, <1>5, Acts
  <2>2. call' = call /\ line' = line + 1
    BY <2>1, <1>1, Advanced, Goes
  <2>3. CASE line = 1
    <3>1. Drive(m_scl, 0) /\ m_scl = 0
      BY <1>2, <1>4, <2>3, Acts
    <3>2. m_scl' = 0 /\ m_sda' = 0 /\ slave' = slave
      BY <3>1, SdaUnheard DEF Bit
    <3>3. InStop'
      BY <1>1, <1>4, <2>2, <2>3, <3>2 DEF InStop
    <3> QED
      BY <1>1, <2>1, <3>3, Stays
  <2>4. CASE line = 2
    <3>1. Drive(1, m_sda) /\ m_scl = 0
      BY <1>2, <1>4, <2>4, Acts
    <3>2. m_scl' = 1 /\ m_sda' = m_sda /\ slave' = IF stretch THEN slave ELSE Risen(slave, sda)
      BY <3>1, SclRises
    <3>3. /\ Risen(slave, sda).mode = slave.mode /\ Risen(slave, sda).drive = 1
          /\ Risen(slave, sda).heard = slave.heard
      BY <1>4, SlaveNow, RisenFields
    <3>4. slave'.mode = slave.mode /\ slave'.drive = 1 /\ slave'.heard = slave.heard
      BY <1>4, <3>2, <3>3
    <3>5. InStop'
      BY <1>1, <1>4, <2>2, <2>4, <3>2, <3>4 DEF InStop
    <3> QED
      BY <1>1, <2>1, <3>5, Stays
  <2>5. CASE line = 3
    <3>1. m_scl' = 1 /\ m_sda' = m_sda /\ slave' = slave /\ ~stretch'
      BY <1>2, <2>5, Acts
    <3>2. InStop'
      BY <1>1, <1>4, <2>2, <2>5, <3>1 DEF InStop
    <3> QED
      BY <1>1, <2>1, <3>2, Stays
  <2> QED
    BY <1>2, <1>5, <2>3, <2>4, <2>5
<1>6. CASE line = 4
  <2>1. Drive(m_scl, 1) /\ m_scl = 1 /\ m_sda = 0 /\ ~stretch
    BY <1>2, <1>4, <1>6, Acts
  <2>2. slave' = Free(slave.heard)
    BY <1>4, <2>1, SdaRises
  <2>3. slave'.heard = op.ws
    BY <1>4, <2>2, FreeTypes, SlaveNow
  <2>4. Leave(call + 1) /\ rx' = rx
    BY <1>3, <1>6, Acts DEF EndCall
  <2>5. op \in Transfers /\ call = Len(Calls) /\ Calls' = Calls /\ Len(Calls) \in Nat
        /\ call \in 1 .. Len(Calls)
    BY <1>1, InOperation, SameOp DEF Sound
  <2>6. ~Running'
    BY <2>4, <2>5 DEF Running, Leave
  <2>7. RxAt(op, call) = op.n
    BY <2>5, CallFacts
  <2>8. rx' = Copies(reg, op.n)
    BY <1>1, <2>4, <2>7 DEF TransferInv
  <2> QED
    BY <1>1, <2>3, <2>6, <2>8 DEF TransferInv
<1> QED
  BY <1>5, <1>6

\* What the slave takes a byte for.
LEMMA WriteContext ==
  ASSUME TypeInv, PlaceInv, Running, Sound, Primitive = "write"
  PROVE  LET w == Calls[call].byte
         IN /\ call < Len(Calls) /\ call \in 1 .. Len(Calls) /\ Len(Calls) \in Nat
            /\ w \in Byte
            /\ Addressing => /\ SubSeq(w, 1, Bits - 1) = Address
                             /\ HeardAt(op, call + 1) = HeardAt(op, call)
                             /\ Calls[call + 1].do \in
                                  (IF w[Bits] = 1 THEN {"read"} ELSE {"write", "start", "stop"})
            /\ ~Addressing => /\ HeardAt(op, call) \in 0 .. Len(op.ws) - 1
                              /\ HeardAt(op, call + 1) = HeardAt(op, call) + 1
                              /\ w = op.ws[HeardAt(op, call) + 1]
                              /\ Calls[call + 1].do \in {"write", "start", "stop"}
            /\ RxAt(op, call + 1) = RxAt(op, call)
<1>1. op \in Transfers /\ call \in 1 .. Len(Calls) /\ call # Len(Calls) /\ Len(Calls) \in Nat
      /\ Calls[call].byte \in Byte
  BY InOperation DEF Sound
<1>2. call < Len(Calls) /\ NextOf(call) /\ Calls[call].do = "write"
  BY <1>1, CallFacts DEF Primitive
<1>3. call > 1
  BY <1>2 DEF NextOf
<1>4. ASSUME Addressing PROVE SubSeq(Calls[call].byte, 1, Bits - 1) = Address
  <2>1. call - 1 \in 1 .. Len(Calls) /\ call - 1 < Len(Calls) /\ call - 1 + 1 = call
    BY <1>1, <1>3
  <2>2. NextOf(call - 1)
    BY <1>1, <2>1, CallFacts
  <2>3. Calls[call - 1].do = "start"
    BY <1>4 DEF Addressing
  <2> QED
    BY <2>1, <2>2, <2>3 DEF NextOf
<1> QED
  BY <1>1, <1>2, <1>4 DEF NextOf, Addressing

LEMMA WriteAfter ==
  ASSUME TypeInv, PlaceInv, TransferInv, Running, Step, Sound', Primitive = "write"
  PROVE  TransferInv'
<1> DEFINE w    == Calls[call].byte
           mode == IF Addressing THEN "addr" ELSE "recv"
           ack  == IF Addressing /\ w[Bits] = 1 THEN "ack_r" ELSE "ack_w"
<1>1. InWrite /\ Sound /\ op' = op /\ reg' = reg
  BY Acts DEF TransferInv
<1>2. \/ line = 1 /\ next = "sda_bit"
      \/ line = 2 /\ next = "scl_release"
      \/ line = 3 /\ next = "wait"
      \/ line = 4 /\ next = "scl_low"
      \/ line = 5 /\ next = "sda_release"
      \/ line = 6 /\ next = "scl_release"
      \/ line = 7 /\ next = "wait"
      \/ line = 8 /\ next = "read_ack"
      \/ line = 9 /\ next = "scl_low"
  BY NextLine
<1>3. Len(Code(Primitive)) = 9 /\ round \in 1 .. Bits /\ (line > 4 => round = Bits)
  BY CodeFacts, Rounds
<1>4. w \in Byte /\ Bits \in Nat /\ Bits > 1
  BY <1>1, WriteContext, I2cAssumption
<1>5. w[round] \in Bit
  BY <1>3, <1>4 DEF Byte
<1>6. IF line <= 4
      THEN /\ slave.heard = First(op.ws, HeardAt(op, call))
           /\ slave.mode = mode /\ slave.drive = 1
           /\ slave.bits = First(w, IF line <= 2 \/ (line = 3 /\ stretch)
                                    THEN round - 1 ELSE round)
      ELSE /\ slave.heard = First(op.ws, HeardAt(op, call + 1))
           /\ slave.mode = ack /\ slave.drive = 0 /\ slave.bits = << >>
  BY <1>1 DEF InWrite
<1>7. /\ m_scl = (IF line \in {1, 2, 5, 6} THEN 0 ELSE 1)
      /\ (line \in {2, 3, 4} => m_sda = w[round])
      /\ (line >= 6 => m_sda = 1)
      /\ (line \in {4, 8, 9} => ~stretch)
  BY <1>1 DEF InWrite
\* The invariant within the call, w and what follows from the call being fixed.
<1>8. ASSUME Advance, round' \in Nat,
             IF line' <= 4
             THEN /\ slave'.heard = First(op.ws, HeardAt(op, call))
                  /\ slave'.mode = mode /\ slave'.drive = 1
                  /\ slave'.bits = First(w, IF line' <= 2 \/ (line' = 3 /\ stretch')
                                            THEN round' - 1 ELSE round')
             ELSE /\ slave'.heard = First(op.ws, HeardAt(op, call + 1))
                  /\ slave'.mode = ack /\ slave'.drive = 0 /\ slave'.bits = << >>,
             m_scl' = (IF line' \in {1, 2, 5, 6} THEN 0 ELSE 1),
             line' \in {2, 3, 4} => m_sda' = w[round'],
             line' >= 6 => m_sda' = 1,
             line' \in {4, 8, 9} => ~stretch'
      PROVE  TransferInv'
  <2>1. Calls' = Calls /\ call' = call
    BY <1>1, <1>8, Advanced
  <2>2. Addressing' <=> Addressing
    BY <2>1 DEF Addressing
  <2>3. InWrite'
    BY <1>1, <1>8, <2>1, <2>2 DEF InWrite
  <2> QED
    BY <1>1, <1>8, <2>3, Stays
<1>9. ASSUME line # 9
      PROVE  Advance /\ IF line = 4 /\ round < Bits
                        THEN line' = 1 /\ round' = round + 1
                        ELSE line' = line + 1 /\ round' = round
  BY <1>1, <1>3, <1>9, Acts, Goes
<1>10. round \in Nat /\ round + 1 \in Nat /\ round + 1 - 1 = round
  BY <1>3
<1> HIDE DEF w, mode, ack
<1>11. mode \in {"addr", "recv"} /\ ack \in {"ack_r", "ack_w"}
  BY DEF mode, ack
<1>a. CASE line = 1
  <2>1. Drive(m_scl, w[round]) /\ m_scl = 0
    BY <1>2, <1>7, <1>a, Acts DEF w
  <2>2. m_scl' = 0 /\ m_sda' = w[round] /\ slave' = slave
    BY <1>5, <2>1, SdaUnheard
  <2>3. Advance /\ line' = 2 /\ round' = round
    BY <1>9, <1>a
  <2> QED
    BY <1>6, <1>8, <1>10, <1>a, <2>2, <2>3
<1>b. CASE line = 2
  <2>1. Drive(1, m_sda) /\ m_scl = 0
    BY <1>2, <1>7, <1>b, Acts
  <2>2. /\ m_scl' = 1 /\ m_sda' = m_sda /\ stretch' = stretch
        /\ slave' = IF stretch THEN slave ELSE Risen(slave, sda)
    BY <2>1, SclRises
  <2>3. Advance /\ line' = 3 /\ round' = round
    BY <1>9, <1>b
  <2>4. /\ slave.mode = mode /\ slave.drive = 1 /\ slave.bits = First(w, round - 1)
        /\ m_sda = w[round] /\ slave.heard = First(op.ws, HeardAt(op, call))
    BY <1>6, <1>7, <1>b
  <2>5. sda = w[round]
    BY <2>4, SlaveNow
  <2>6. Append(First(w, round - 1), w[round]) = First(w, round)
    <3>1. round - 1 \in Nat /\ round - 1 + 1 = round
      BY <1>3
    <3>2. \A i \in 1 .. round - 1 + 1 : w[i] \in Bit
      BY <1>3, <1>4 DEF Byte
    <3> QED
      BY <3>1, <3>2, FirstGrows
  <2>7. /\ Risen(slave, sda).mode = mode /\ Risen(slave, sda).drive = 1
        /\ Risen(slave, sda).bits = First(w, round)
        /\ Risen(slave, sda).heard = slave.heard
    <3>1. slave \in Slaves /\ sda \in Bit /\ slave.mode \in {"addr", "recv"}
      BY <1>11, <2>4, SlaveNow
    <3>2. /\ Risen(slave, sda).mode = slave.mode
          /\ Risen(slave, sda).bits = Append(slave.bits, sda)
          /\ Risen(slave, sda).drive = slave.drive
          /\ Risen(slave, sda).heard = slave.heard
      BY <3>1, RisenFields
    <3> QED
      BY <2>4, <2>5, <2>6, <3>2
  <2>8. slave'.heard = First(op.ws, HeardAt(op, call)) /\ slave'.mode = mode /\ slave'.drive = 1
        /\ slave'.bits = First(w, IF stretch THEN round - 1 ELSE round)
    BY <2>2, <2>4, <2>7
  <2> QED
    BY <1>8, <1>10, <2>2, <2>3, <2>4, <2>8
<1>c. CASE line = 3
  <2>1. m_scl' = 1 /\ m_sda' = m_sda /\ slave' = slave /\ ~stretch /\ ~stretch'
    BY <1>2, <1>c, Acts
  <2>2. Advance /\ line' = 4 /\ round' = round
    BY <1>9, <1>c
  <2> QED
    BY <1>6, <1>7, <1>8, <1>10, <1>c, <2>1, <2>2
<1>d. CASE line = 4
  <2>1. Drive(0, m_sda) /\ m_scl = 1 /\ ~stretch
    BY <1>2, <1>7, <1>d, Acts
  <2>2. m_scl' = 0 /\ slave' = Fallen(slave)
    BY <2>1, SclFalls
  <2>3. slave.mode = mode /\ slave.drive = 1 /\ slave.bits = First(w, round)
        /\ slave.heard = First(op.ws, HeardAt(op, call))
    BY <1>6, <1>d
  <2>4. Len(slave.bits) = round
    BY <1>3, <1>4, <2>3, FirstByte
  <2>5. CASE round < Bits
    <3>1. slave' = slave
      BY <1>11, <2>2, <2>3, <2>4, <2>5, FallenFields, SlaveNow
    <3>2. Advance /\ line' = 1 /\ round' = round + 1
      BY <1>9, <1>d, <2>5
    <3> QED
      BY <1>8, <1>10, <2>2, <2>3, <3>1, <3>2
  <2>6. CASE round = Bits
    <3>1. Advance /\ line' = 5 /\ round' = round
      BY <1>4, <1>9, <1>d, <2>6
    <3>2. slave.bits = w
      BY <1>4, <2>3, <2>6, FirstByte
    <3>3. CASE Addressing
      <4>1. SubSeq(w, 1, Bits - 1) = Address /\ HeardAt(op, call + 1) = HeardAt(op, call)
        BY <1>1, <3>3, WriteContext DEF w
      <4>2. slave.mode = "addr"
        BY <2>3, <3>3 DEF mode
      <4>3. /\ slave'.mode = ack /\ slave'.drive = 0 /\ slave'.bits = << >>
            /\ slave'.heard = slave.heard
        BY <2>2, <2>4, <2>6, <3>2, <3>3, <4>1, <4>2, FallenFields, SlaveNow DEF ack
      <4> QED
        BY <1>8, <1>10, <2>2, <2>3, <3>1, <4>1, <4>3
    <3>4. CASE ~Addressing
      <4>1. /\ HeardAt(op, call) \in 0 .. Len(op.ws) - 1
            /\ HeardAt(op, call + 1) = HeardAt(op, call) + 1
            /\ w = op.ws[HeardAt(op, call) + 1]
        BY <1>1, <3>4, WriteContext DEF w
      <4>2. slave.mode = "recv" /\ ack = "ack_w"
        BY <2>3, <3>4 DEF mode, ack
      <4>3. /\ slave'.mode = ack /\ slave'.drive = 0 /\ slave'.bits = << >>
            /\ slave'.heard = Append(slave.heard, w)
        BY <2>2, <2>4, <2>6, <3>2, <4>2, FallenFields, SlaveNow
      <4>4. op.ws \in Seq(Byte)
        BY <1>1 DEF Sound, Transfers
      <4>5. Append(First(op.ws, HeardAt(op, call)), op.ws[HeardAt(op, call) + 1])
              = First(op.ws, HeardAt(op, call) + 1)
        <5> DEFINE h == HeardAt(op, call)
        <5>1. h \in Nat /\ \A i \in 1 .. h + 1 : op.ws[i] \in Byte
          <6>1. Len(op.ws) \in Nat /\ h \in 0 .. Len(op.ws) - 1
            BY <4>1, <4>4
          <6> QED
            BY <4>4, <6>1
        <5> QED
          BY <5>1, FirstGrows
      <4>6. slave'.heard = First(op.ws, HeardAt(op, call + 1))
        BY <2>3, <4>1, <4>3, <4>5
      <4> QED
        BY <1>8, <1>10, <2>2, <3>1, <4>3, <4>6
    <3> QED
      BY <3>3, <3>4
  <2> QED
    BY <1>3, <1>4, <2>5, <2>6
<1>e. CASE line = 5
  <2>1. Drive(m_scl, 1) /\ m_scl = 0
    BY <1>2, <1>7, <1>e, Acts
  <2>2. m_scl' = 0 /\ m_sda' = 1 /\ slave' = slave
    BY <2>1, SdaUnheard DEF Bit
  <2>3. Advance /\ line' = 6 /\ round' = round
    BY <1>9, <1>e
  <2> QED
    BY <1>6, <1>8, <1>10, <1>e, <2>2, <2>3
<1>f. CASE line = 6
  <2>1. Drive(1, m_sda) /\ m_scl = 0
    BY <1>2, <1>7, <1>f, Acts
  <2>2. /\ m_scl' = 1 /\ m_sda' = m_sda
        /\ slave' = IF stretch THEN slave ELSE Risen(slave, sda)
    BY <2>1, SclRises
  <2>3. slave.mode = ack
    BY <1>6, <1>f
  <2>4. slave' = slave
    BY <1>11, <2>2, <2>3, RisenFields, SlaveNow
  <2>5. Advance /\ line' = 7 /\ round' = round
    BY <1>9, <1>f
  <2> QED
    BY <1>6, <1>7, <1>8, <1>10, <1>f, <2>2, <2>4, <2>5
<1>g. CASE line = 7
  <2>1. m_scl' = 1 /\ m_sda' = m_sda /\ slave' = slave /\ ~stretch'
    BY <1>2, <1>g, Acts
  <2>2. Advance /\ line' = 8 /\ round' = round
    BY <1>9, <1>g
  <2> QED
    BY <1>6, <1>7, <1>8, <1>10, <1>g, <2>1, <2>2
<1>h. CASE line = 8
  <2>1. m_scl' = m_scl /\ m_sda' = m_sda /\ slave' = slave /\ stretch' = stretch
    BY <1>2, <1>h, Acts
  <2>2. Advance /\ line' = 9 /\ round' = round
    BY <1>9, <1>h
  <2> QED
    BY <1>6, <1>7, <1>8, <1>10, <1>h, <2>1, <2>2
<1>i. CASE line = 9
  <2>1. Drive(0, m_sda) /\ m_scl = 1 /\ ~stretch /\ m_sda = 1
    BY <1>2, <1>7, <1>i, Acts
  <2>2. m_scl' = 0 /\ m_sda' = 1 /\ slave' = Fallen(slave)
    BY <2>1, SclFalls
  <2>3. /\ slave.heard = First(op.ws, HeardAt(op, call + 1))
        /\ slave.mode = ack /\ slave.bits = << >>
    BY <1>6, <1>i
  <2>4. /\ ack = "ack_w" => slave'.mode = "recv" /\ slave'.drive = 1
        /\ ack = "ack_r" => slave'.mode = "send" /\ slave'.drive = reg[1]
                            /\ slave'.out = Bits - 1
        /\ slave'.bits = << >> /\ slave'.heard = slave.heard
    BY <1>11, <2>2, <2>3, FallenFields, SlaveNow
  <2>5. Leave(call + 1) /\ rx' = rx
    <3>1. EndCall /\ status = "ok"
      BY <1>1, <1>3, <1>i, Acts DEF Sound
    <3> QED
      BY <3>1 DEF EndCall
  <2>6. /\ op \in Transfers /\ call < Len(Calls)
        /\ RxAt(op, call + 1) = RxAt(op, call)
        /\ ack = "ack_r" => Calls[call + 1].do = "read"
        /\ ack = "ack_w" => Calls[call + 1].do \in {"write", "start", "stop"}
    BY <1>1, WriteContext DEF Sound, ack, w
  <2>7. rx' = Copies(reg, RxAt(op, call + 1))
    BY <1>1, <2>5, <2>6 DEF TransferInv
  <2>8. slave'.heard = First(op.ws, HeardAt(op, call + 1))
    BY <2>3, <2>4
  <2>9. CASE ack = "ack_w"
    BY <1>1, <2>2, <2>4, <2>5, <2>6, <2>7, <2>8, <2>9, Enters
  <2>10. CASE ack = "ack_r"
    BY <1>1, <2>2, <2>4, <2>5, <2>6, <2>7, <2>8, <2>10, Enters
  <2> QED
    BY <1>11, <2>9, <2>10
<1> QED
  BY <1>2, <1>a, <1>b, <1>c, <1>d, <1>e, <1>f, <1>g, <1>h, <1>i

LEMMA ReadAfter ==
  ASSUME TypeInv, PlaceInv, TransferInv, Running, Step, Sound', Primitive = "read"
  PROVE  TransferInv'
<1> DEFINE ack == Calls[call].ack
           H   == First(op.ws, HeardAt(op, call))
           At(l, r, st, s, c, d, bb) ==
             /\ s.heard = H /\ s.bits = << >>
             /\ bb = First(reg, IF l <= 4 THEN r - 1 ELSE IF l = 5 THEN r ELSE Bits)
             /\ CASE l <= 5 -> /\ s.mode = "send" /\ s.drive = reg[r]
                               /\ s.out = Bits - r /\ d = 1
                  [] l \in {6, 7} \/ (l = 8 /\ st) -> s.mode = "mack"
                  [] l = 9 \/ (l = 8 /\ ~st) ->
                       s.mode = (IF ack THEN "more" ELSE "idle") /\ s.drive = 1
                  [] l = 10 -> IF ack THEN /\ s.mode = "send" /\ s.drive = reg[1]
                                           /\ s.out = Bits - 1
                               ELSE s.mode = "idle"
             /\ c = IF l \in {1, 2, 6, 7, 10} THEN 0 ELSE 1
             /\ l \in {7, 8, 9} => d = (IF ack THEN 0 ELSE 1)
             /\ l \in {4, 5, 9} => ~st
<1>1. InRead /\ Sound /\ op' = op /\ reg' = reg
  BY Acts DEF TransferInv
<1>2. \/ line = 1 /\ next = "sda_release"
      \/ line = 2 /\ next = "scl_release"
      \/ line = 3 /\ next = "wait"
      \/ line = 4 /\ next = "read_bit"
      \/ line = 5 /\ next = "scl_low"
      \/ line = 6 /\ next = "sda_ack"
      \/ line = 7 /\ next = "scl_release"
      \/ line = 8 /\ next = "wait"
      \/ line = 9 /\ next = "scl_low"
      \/ line = 10 /\ next = "sda_release"
  BY NextLine
<1>3. /\ Len(Code(Primitive)) = 10 /\ round \in 1 .. Bits
      /\ line > 5 => round = Bits
      /\ line < 2 => round = 1
  BY CodeFacts, Rounds
<1>4. reg \in Byte /\ Bits \in Nat /\ Bits > 1 /\ \A i \in 1 .. Bits : reg[i] \in Bit
  BY SlaveNow, I2cAssumption DEF Byte
<1>5. At(line, round, stretch, slave, m_scl, m_sda, b)
  BY <1>1 DEF InRead
<1>6. ASSUME Advance, At(line', round', stretch', slave', m_scl', m_sda', b')
      PROVE  TransferInv'
  <2>1. Calls' = Calls /\ call' = call
    BY <1>1, <1>6, Advanced
  <2>2. InRead'
    BY <1>1, <1>6, <2>1 DEF InRead
  <2> QED
    BY <1>1, <1>6, <2>2, Stays
<1>7. ASSUME line # 10
      PROVE  Advance /\ IF line = 5 /\ round < Bits
                        THEN line' = 2 /\ round' = round + 1
                        ELSE line' = line + 1 /\ round' = round
  BY <1>1, <1>3, <1>7, Acts, Goes
<1>8. round \in Nat /\ round + 1 - 1 = round
  BY <1>3
<1>9. op \in Transfers /\ call < Len(Calls) /\ ack \in BOOLEAN
      /\ HeardAt(op, call + 1) = HeardAt(op, call) /\ RxAt(op, call + 1) = RxAt(op, call) + 1
      /\ Calls[call + 1].do = (IF ack THEN "read" ELSE "stop")
      /\ RxAt(op, call) \in Nat
  <2>1. op \in Transfers /\ call \in 1 .. Len(Calls) /\ call # Len(Calls) /\ Len(Calls) \in Nat
    BY <1>1, InOperation DEF Sound
  <2>2. call < Len(Calls) /\ NextOf(call) /\ Calls[call].do = "read" /\ RxAt(op, call) \in Nat
    BY <2>1, CallFacts DEF Primitive
  <2> QED
    BY <2>1, <2>2 DEF NextOf
<1> HIDE DEF ack, H
<1>a. CASE line = 1
  <2>1. Drive(m_scl, 1) /\ m_scl = 0
    BY <1>2, <1>5, <1>a, Acts
  <2>2. m_scl' = 0 /\ m_sda' = 1 /\ slave' = slave
    BY <2>1, SdaUnheard DEF Bit
  <2>3. Advance /\ line' = 2 /\ round' = round /\ b' = b
    BY <1>2, <1>3, <1>7, <1>a, Acts
  <2> QED
    BY <1>5, <1>6, <1>a, <2>2, <2>3
<1>b. CASE line = 2
  <2>1. Drive(1, m_sda) /\ m_scl = 0 /\ slave.mode = "send"
    BY <1>2, <1>5, <1>b, Acts
  <2>2. /\ m_scl' = 1 /\ m_sda' = m_sda
        /\ slave' = IF stretch THEN slave ELSE Risen(slave, sda)
    BY <2>1, SclRises
  <2>3. slave' = slave
    BY <2>1, <2>2, RisenFields, SlaveNow
  <2>4. Advance /\ line' = 3 /\ round' = round /\ b' = b
    BY <1>2, <1>3, <1>7, <1>b, Acts
  <2> QED
    BY <1>5, <1>6, <1>b, <2>2, <2>3, <2>4
<1>c. CASE line = 3
  <2>1. m_scl' = 1 /\ m_sda' = m_sda /\ slave' = slave /\ ~stretch'
    BY <1>2, <1>c, Acts
  <2>2. Advance /\ line' = 4 /\ round' = round /\ b' = b
    BY <1>2, <1>3, <1>7, <1>c, Acts
  <2> QED
    BY <1>5, <1>6, <1>c, <2>1, <2>2
<1>d. CASE line = 4
  <2>1. m_scl' = m_scl /\ m_sda' = m_sda /\ slave' = slave /\ stretch' = stretch
        /\ b' = Append(b, sda)
    BY <1>2, <1>d, Acts
  <2>2. Advance /\ line' = 5 /\ round' = round
    BY <1>7, <1>d
  <2>3. b = First(reg, round - 1) /\ m_sda = 1 /\ slave.drive = reg[round]
    BY <1>5, <1>d
  <2>4. sda = reg[round]
    BY <2>3, SlaveNow
  <2>5. Append(First(reg, round - 1), reg[round]) = First(reg, round)
    <3>1. round - 1 \in Nat /\ round - 1 + 1 = round
      BY <1>3
    <3>2. \A i \in 1 .. round - 1 + 1 : reg[i] \in Bit
      BY <1>3, <1>4
    <3> QED
      BY <3>1, <3>2, FirstGrows
  <2>6. b' = First(reg, round)
    BY <2>1, <2>3, <2>4, <2>5
  <2> QED
    BY <1>5, <1>6, <1>d, <2>1, <2>2, <2>6
<1>e. CASE line = 5
  <2>1. Drive(0, m_sda) /\ m_scl = 1 /\ ~stretch /\ m_sda = 1
    BY <1>2, <1>5, <1>e, Acts
  <2>2. m_scl' = 0 /\ m_sda' = 1 /\ slave' = Fallen(slave)
    BY <2>1, SclFalls
  <2>3. /\ slave.mode = "send" /\ slave.out = Bits - round /\ slave.heard = H
        /\ slave.bits = << >> /\ b = First(reg, round)
    BY <1>5, <1>e
  <2>4. b' = b
    BY <1>2, <1>3, <1>e, Acts
  <2>5. CASE round < Bits
    <3>1. Advance /\ line' = 2 /\ round' = round + 1
      BY <1>7, <1>e, <2>5
    <3>2. slave.out > 0 /\ Bits - slave.out + 1 = round + 1 /\ slave.out - 1 = Bits - (round + 1)
      BY <1>3, <1>4, <2>3, <2>5
    <3>3. /\ slave'.mode = "send" /\ slave'.drive = reg[round + 1]
          /\ slave'.out = Bits - (round + 1)
          /\ slave'.bits = << >> /\ slave'.heard = H
      BY <2>2, <2>3, <3>2, FallenFields, SlaveNow
    <3> QED
      BY <1>6, <1>8, <2>2, <2>3, <2>4, <3>1, <3>3
  <2>6. CASE round = Bits
    <3>1. Advance /\ line' = 6 /\ round' = round
      BY <1>4, <1>7, <1>e, <2>6
    <3>2. slave.out = 0
      BY <1>4, <2>3, <2>6
    <3>3. slave'.mode = "mack" /\ slave'.bits = << >> /\ slave'.heard = H
      BY <2>2, <2>3, <3>2, FallenFields, SlaveNow
    <3> QED
      BY <1>6, <2>2, <2>3, <2>4, <2>6, <3>1, <3>3
  <2> QED
    BY <1>3, <1>4, <2>5, <2>6
<1>f. CASE line = 6
  <2> DEFINE d == IF ack THEN 0 ELSE 1
  <2>1. Drive(m_scl, d) /\ m_scl = 0 /\ d \in Bit
    BY <1>2, <1>5, <1>f, Acts DEF Bit, ack
  <2>2. m_scl' = 0 /\ m_sda' = d /\ slave' = slave
    BY <2>1, SdaUnheard
  <2>3. Advance /\ line' = 7 /\ round' = round /\ b' = b
    BY <1>2, <1>3, <1>7, <1>f, Acts
  <2> QED
    BY <1>5, <1>6, <1>f, <2>2, <2>3
<1>g. CASE line = 7
  <2>1. Drive(1, m_sda) /\ m_scl = 0 /\ slave.mode = "mack"
        /\ slave.heard = H /\ slave.bits = << >> /\ b = First(reg, Bits)
        /\ m_sda = (IF ack THEN 0 ELSE 1)
    BY <1>2, <1>5, <1>g, Acts
  <2>2. /\ m_scl' = 1 /\ m_sda' = m_sda /\ stretch' = stretch
        /\ slave' = IF stretch THEN slave ELSE Risen(slave, sda)
    BY <2>1, SclRises
  <2>3. sda = m_sda
    BY <2>1, SlaveNow
  <2>4. /\ Risen(slave, sda).mode = (IF ack THEN "more" ELSE "idle")
        /\ Risen(slave, sda).drive = 1 /\ Risen(slave, sda).bits = << >>
        /\ Risen(slave, sda).heard = H
    <3>1. slave \in Slaves /\ sda \in Bit
      BY SlaveNow
    <3>2. /\ Risen(slave, sda).mode = (IF sda = 0 THEN "more" ELSE "idle")
          /\ Risen(slave, sda).drive = 1
          /\ Risen(slave, sda).bits = (IF sda = 0 THEN slave.bits ELSE << >>)
          /\ Risen(slave, sda).heard = slave.heard
      BY <2>1, <3>1, RisenFields
    <3> QED
      BY <2>1, <2>3, <3>2
  <2>5. Advance /\ line' = 8 /\ round' = round /\ b' = b
    BY <1>2, <1>3, <1>7, <1>g, Acts
  <2>6. CASE stretch
    BY <1>6, <2>1, <2>2, <2>5, <2>6
  <2>7. CASE ~stretch
    BY <1>6, <2>1, <2>2, <2>4, <2>5, <2>7
  <2> QED
    BY <2>6, <2>7
<1>h. CASE line = 8
  <2>1. m_scl' = 1 /\ m_sda' = m_sda /\ slave' = slave /\ ~stretch' /\ ~stretch
    BY <1>2, <1>h, Acts
  <2>2. Advance /\ line' = 9 /\ round' = round /\ b' = b
    BY <1>2, <1>3, <1>7, <1>h, Acts
  <2> QED
    BY <1>5, <1>6, <1>h, <2>1, <2>2
<1>i. CASE line = 9
  <2>1. Drive(0, m_sda) /\ m_scl = 1 /\ ~stretch
        /\ slave.mode = (IF ack THEN "more" ELSE "idle")
        /\ slave.heard = H /\ slave.bits = << >> /\ b = First(reg, Bits)
    BY <1>2, <1>5, <1>i, Acts
  <2>2. m_scl' = 0 /\ slave' = Fallen(slave)
    BY <2>1, SclFalls
  <2>3. Advance /\ line' = 10 /\ round' = round /\ b' = b
    BY <1>2, <1>3, <1>7, <1>i, Acts
  <2>4. CASE ack
    <3>1. slave'.mode = "send" /\ slave'.drive = reg[1] /\ slave'.out = Bits - 1
          /\ slave'.bits = << >> /\ slave'.heard = H
      BY <2>1, <2>2, <2>4, FallenFields, SlaveNow
    <3> QED
      BY <1>6, <2>1, <2>2, <2>3, <2>4, <3>1
  <2>5. CASE ~ack
    <3>1. slave' = slave /\ slave.mode = "idle"
      BY <2>1, <2>2, <2>5, FallenFields, SlaveNow
    <3> QED
      BY <1>6, <2>1, <2>2, <2>3, <2>5, <3>1
  <2> QED
    BY <2>4, <2>5
<1>j. CASE line = 10
  <2>1. Drive(m_scl, 1) /\ m_scl = 0 /\ slave.heard = H /\ slave.bits = << >>
        /\ b = First(reg, Bits)
        /\ IF ack THEN slave.mode = "send" /\ slave.drive = reg[1] /\ slave.out = Bits - 1
           ELSE slave.mode = "idle"
    BY <1>2, <1>5, <1>j, Acts
  <2>2. m_scl' = 0 /\ m_sda' = 1 /\ slave' = slave
    BY <2>1, SdaUnheard DEF Bit
  <2>3. Leave(call + 1) /\ rx' = Append(rx, b)
    <3>1. EndCall
      BY <1>3, <1>j, Acts
    <3> QED
      BY <3>1 DEF EndCall
  <2>4. b = reg
    BY <1>4, <2>1, FirstByte
  <2>5. rx = Copies(reg, RxAt(op, call))
    BY <1>1 DEF TransferInv
  <2>6. rx' = Copies(reg, RxAt(op, call + 1))
    BY <1>4, <1>9, <2>3, <2>4, <2>5, CopiesGrow
  <2>7. slave'.heard = First(op.ws, HeardAt(op, call + 1))
    BY <1>9, <2>1, <2>2 DEF H
  <2>8. CASE ack
    <3>1. Calls[call + 1].do = "read"
      BY <1>9, <2>8
    <3> QED
      BY <1>1, <1>9, <2>1, <2>2, <2>3, <2>6, <2>7, <2>8, <3>1, Enters
  <2>9. CASE ~ack
    <3>1. Calls[call + 1].do = "stop"
      BY <1>9, <2>9
    <3>2. slave.drive = 1
      BY <2>1, <2>9, SlaveNow
    <3> QED
      BY <1>1, <1>9, <2>1, <2>2, <2>3, <2>6, <2>7, <2>9, <3>1, <3>2, Enters
  <2> QED
    BY <2>8, <2>9
<1> QED
  BY <1>2, <1>a, <1>b, <1>c, <1>d, <1>e, <1>f, <1>g, <1>h, <1>i, <1>j

-----------------------------------------------------------------------------
(* The clearing of the bus. *)

LEMMA RecoverAfter ==
  ASSUME TypeInv, PlaceInv, RecoverInv, Running, Step, op = Recovery
  PROVE  RecoverInv'
<1>1. /\ op' = op /\ from' = from /\ Primitive = "recover" /\ call = 1 /\ Len(Calls) = 1
      /\ Calls' = Calls
  BY Onward, InOperation, OtherCalls, SameOp
<1>2. \/ line = 1 /\ next = "scl_low"
      \/ line = 2 /\ next = "sda_low"
      \/ line = 3 /\ next = "sda_release"
      \/ line = 4 /\ next = "scl_low"
      \/ line = 5 /\ next = "scl_release"
      \/ line = 6 /\ next = "sda_low"
      \/ line = 7 /\ next = "scl_release"
      \/ line = 8 /\ next = "sda_release"
  BY <1>1, NextLine
<1>3. /\ Len(Code(Primitive)) = 8 /\ round \in 1 .. Pulses
      /\ line > 5 => round = Pulses
      /\ line < 4 => round = 1
  BY <1>1, CodeFacts, Rounds
<1>4. Pulses \in Nat /\ Pulses = Bits + 1 /\ Bits \in Nat /\ Bits > 1
  BY I2cAssumption DEF Pulses
<1>5. SetLine
  BY <1>2 DEF Step, AwaitScl, ReadSda
<1>6. Proceed
  BY <1>5 DEF SetLine
<1>7. /\ next = "sda_release" => Drive(m_scl, 1)
      /\ next = "sda_low" => Drive(m_scl, 0)
      /\ next = "scl_release" => Drive(1, m_sda)
      /\ next = "scl_low" => Drive(0, m_sda)
  BY <1>5 DEF SetLine
<1>8. ~stretch /\ ~stretch'
  <2>1. ~stretch
    BY DEF RecoverInv
  <2>2. op.name = "recover"
    BY DEF Recovery, Transfer
  <2>3. \A c, d : Drive(c, d) => stretch' = stretch
    BY <2>2 DEF Drive
  <2> QED
    BY <1>2, <1>7, <2>1, <2>3
<1>9. CASE from \notin Readers
  BY <1>1, <1>8, <1>9 DEF RecoverInv
<1> SUFFICES ASSUME from \in Readers
             PROVE  RecoverInv'
  BY <1>9
<1>10. /\ line = 1 => slave.mode = from /\ m_scl = 1
       /\ line \in {2, 3, 5} \/ (line = 4 /\ round = 1) =>
            m_scl = 0 /\ FreeAfterLow(Pulses - round + 1)
       /\ line = 4 /\ round > 1 => m_scl = 1 /\ FreeAfterHigh(Pulses - round + 1)
       /\ line \in {4, 5, 6} => m_sda = 1
       /\ line = 6 => slave.mode = "idle"
       /\ line \in {7, 8} => slave.mode = "addr" /\ slave.drive = 1 /\ m_sda = 0
  BY DEF RecoverInv
<1>11. line \in {6, 7, 8} => m_scl = 1
  BY <1>1 DEF PlaceInv
<1>12. ASSUME line # 8
       PROVE  /\ Running'
              /\ IF line = 5 /\ round < Pulses
                 THEN line' = 4 /\ round' = round + 1
                 ELSE line' = line + 1 /\ round' = round
  <2>1. Advance
    BY <1>3, <1>6, <1>12 DEF Proceed
  <2> QED
    BY <1>1, <2>1, Advanced, Goes
<1> DEFINE Low(s, p)  == \/ s.mode = "idle"
                         \/ s.mode = "send" /\ s.out + 2 <= p
                         \/ s.mode = "mack" /\ 1 <= p
           High(s, p) == \/ s.mode = "idle"
                         \/ s.mode = "send" /\ s.out + 1 <= p
<1>13. /\ \A p : FreeAfterLow(p) <=> Low(slave, p)
       /\ \A p : FreeAfterHigh(p) <=> High(slave, p)
  BY DEF FreeAfterLow, FreeAfterHigh
<1>14. ASSUME line # 8,
              line' \in {2, 3, 5} \/ (line' = 4 /\ round' = 1) =>
                m_scl' = 0 /\ Low(slave', Pulses - round' + 1),
              line' = 4 /\ round' > 1 => m_scl' = 1 /\ High(slave', Pulses - round' + 1),
              line' \in {4, 5, 6} => m_sda' = 1,
              line' = 6 => slave'.mode = "idle",
              line' \in {7, 8} => slave'.mode = "addr" /\ slave'.drive = 1 /\ m_sda' = 0
       PROVE  RecoverInv'
  <2>1. line' # 1 /\ Running'
    BY <1>2, <1>12, <1>14
  <2> QED
    BY <1>1, <1>8, <1>14, <2>1 DEF RecoverInv, FreeAfterLow, FreeAfterHigh
<1>15. slave \in Slaves /\ slave.out \in 0 .. Bits - 1 /\ reg \in Byte
  BY SlaveFields DEF TypeInv
<1>16. Pulses - 1 + 1 = Pulses
  BY <1>4
<1>a. CASE line = 1
  <2>1. Drive(0, m_sda) /\ m_scl = 1 /\ slave.mode \in Readers
    BY <1>2, <1>7, <1>10, <1>a
  <2>2. m_scl' = 0 /\ slave' = Fallen(slave)
    BY <1>8, <2>1, SclFalls
  <2>3. Low(slave', Pulses)
    <3>1. CASE slave.mode \in {"ack_r", "more"}
      <4>1. slave'.mode = "send" /\ slave'.out = Bits - 1
        BY <1>15, <2>2, <3>1, FallenFields
      <4> QED
        BY <1>4, <4>1
    <3>2. CASE slave.mode = "send" /\ slave.out = 0
      <4>1. slave'.mode = "mack"
        BY <1>15, <2>2, <3>2, FallenFields
      <4> QED
        BY <1>4, <4>1
    <3>3. CASE slave.mode = "send" /\ slave.out > 0
      <4>1. slave'.mode = "send" /\ slave'.out = slave.out - 1
        BY <1>15, <2>2, <3>3, FallenFields
      <4> QED
        BY <1>4, <1>15, <4>1
    <3>4. CASE slave.mode = "mack"
      <4>1. slave'.mode = "mack"
        BY <1>15, <2>2, <3>4, FallenFields
      <4> QED
        BY <1>4, <4>1
    <3> QED
      BY <1>15, <2>1, <3>1, <3>2, <3>3, <3>4 DEF Readers
  <2>4. line' = 2 /\ round' = 1
    BY <1>3, <1>12, <1>a
  <2> HIDE DEF Low, High
  <2> QED
    BY <1>14, <1>16, <1>a, <2>2, <2>3, <2>4
<1>b. CASE line = 2
  <2>1. Drive(m_scl, 0) /\ m_scl = 0 /\ Low(slave, Pulses - round + 1)
    BY <1>2, <1>7, <1>10, <1>13, <1>b
  <2>2. m_scl' = 0 /\ slave' = slave
    BY <2>1, SdaUnheard DEF Bit
  <2>3. line' = 3 /\ round' = round
    BY <1>12, <1>b
  <2> HIDE DEF Low, High
  <2> QED
    BY <1>14, <1>b, <2>1, <2>2, <2>3
<1>c. CASE line = 3
  <2>1. Drive(m_scl, 1) /\ m_scl = 0 /\ Low(slave, Pulses - round + 1)
    BY <1>2, <1>7, <1>10, <1>13, <1>c
  <2>2. m_scl' = 0 /\ m_sda' = 1 /\ slave' = slave
    BY <2>1, SdaUnheard DEF Bit
  <2>3. line' = 4 /\ round' = round /\ round' = 1
    BY <1>3, <1>12, <1>c
  <2> HIDE DEF Low, High
  <2> QED
    BY <1>14, <1>c, <2>1, <2>2, <2>3
<1>d. CASE line = 4 /\ round = 1
  <2>1. Drive(0, m_sda) /\ m_scl = 0 /\ m_sda = 1 /\ Low(slave, Pulses - round + 1)
    BY <1>2, <1>7, <1>10, <1>13, <1>d
  <2>2. m_scl' = 0 /\ m_sda' = 1 /\ slave' = slave
    BY <2>1, SclSame
  <2>3. line' = 5 /\ round' = round
    BY <1>12, <1>d
  <2> HIDE DEF Low, High
  <2> QED
    BY <1>14, <1>d, <2>1, <2>2, <2>3
<1>e. CASE line = 4 /\ round > 1
  <2>1. Drive(0, m_sda) /\ m_scl = 1 /\ m_sda = 1 /\ High(slave, Pulses - round + 1)
    BY <1>2, <1>7, <1>10, <1>13, <1>e
  <2>2. m_scl' = 0 /\ m_sda' = 1 /\ slave' = Fallen(slave)
    BY <1>8, <2>1, SclFalls
  <2>3. line' = 5 /\ round' = round
    BY <1>12, <1>e
  <2>4. Low(slave', Pulses - round + 1)
    <3>1. CASE slave.mode = "idle"
      <4>1. slave'.mode = "idle"
        BY <1>15, <2>2, <3>1, FallenFields
      <4> QED
        BY <4>1
    <3>2. CASE slave.mode = "send" /\ slave.out = 0
      <4>1. slave'.mode = "mack"
        BY <1>15, <2>2, <3>2, FallenFields
      <4> QED
        BY <1>3, <1>4, <4>1
    <3>3. CASE slave.mode = "send" /\ slave.out > 0 /\ slave.out + 1 <= Pulses - round + 1
      <4>1. slave'.mode = "send" /\ slave'.out = slave.out - 1
        BY <1>15, <2>2, <3>3, FallenFields
      <4> QED
        BY <1>3, <1>4, <1>15, <3>3, <4>1
    <3>4. slave.out = 0 \/ slave.out > 0
      BY <1>15
    <3> QED
      BY <2>1, <3>1, <3>2, <3>3, <3>4
  <2> HIDE DEF Low, High
  <2> QED
    BY <1>14, <1>e, <2>2, <2>3, <2>4
<1>f. CASE line = 5
  <2>1. Drive(1, m_sda) /\ m_scl = 0 /\ m_sda = 1 /\ Low(slave, Pulses - round + 1)
    BY <1>2, <1>7, <1>10, <1>13, <1>f
  <2>2. m_scl' = 1 /\ m_sda' = 1 /\ slave' = Risen(slave, sda)
    BY <1>8, <2>1, SclRises
  <2>3. slave.mode = "mack" => slave'.mode = "idle"
    <3>1. slave.mode = "mack" => sda = 1
      BY <2>1, SlaveNow
    <3> QED
      BY <1>15, <2>2, <3>1, RisenFields, SlaveNow
  <2>4. slave.mode \in {"idle", "send"} => slave' = slave
    BY <1>15, <2>2, RisenFields, SlaveNow
  <2>5. CASE round < Pulses
    <3>1. line' = 4 /\ round' = round + 1
      BY <1>12, <1>f, <2>5
    <3>2. High(slave', Pulses - round' + 1)
      BY <1>3, <1>4, <1>15, <2>1, <2>3, <2>4, <3>1
    <3>3. round' > 1
      BY <1>3, <3>1
    <3> HIDE DEF Low, High
    <3> QED
      BY <1>14, <1>f, <2>2, <3>1, <3>2, <3>3
  <2>6. CASE round = Pulses
    <3>1. line' = 6
      BY <1>4, <1>12, <1>f, <2>6
    <3>2. slave'.mode = "idle"
      BY <1>4, <1>15, <2>1, <2>3, <2>4, <2>6
    <3> QED
      BY <1>14, <1>f, <2>2, <3>1, <3>2
  <2> QED
    BY <1>3, <1>4, <2>5, <2>6
<1>g. CASE line = 6
  <2>1. Drive(m_scl, 0) /\ m_scl = 1 /\ m_sda = 1 /\ slave.drive = 1
    BY <1>2, <1>7, <1>10, <1>11, <1>g, SlaveNow
  <2>2. m_sda' = 0 /\ slave' = Started(slave)
    BY <1>8, <2>1, SdaFalls
  <2>3. slave'.mode = "addr" /\ slave'.drive = 1
    BY <1>15, <2>2, StartedFields
  <2>4. line' = 7
    BY <1>12, <1>g
  <2> QED
    BY <1>14, <1>g, <2>2, <2>3, <2>4
<1>h. CASE line = 7
  <2>1. Drive(m_scl, m_sda) /\ slave.mode = "addr" /\ slave.drive = 1 /\ m_sda = 0
    BY <1>2, <1>7, <1>10, <1>11, <1>h
  <2>2. m_sda' = 0 /\ slave' = slave
    BY <2>1, SclSame
  <2>3. line' = 8
    BY <1>12, <1>h
  <2> QED
    BY <1>14, <1>h, <2>1, <2>2, <2>3
<1>i. CASE line = 8
  <2>1. Drive(m_scl, 1) /\ m_scl = 1 /\ slave.drive = 1 /\ m_sda = 0
    BY <1>2, <1>7, <1>10, <1>11, <1>i
  <2>2. slave' = Free(slave.heard)
    BY <1>8, <2>1, SdaRises
  <2>3. slave'.mode = "idle"
    BY <2>2 DEF Free
  <2>4. EndCall
    BY <1>3, <1>6, <1>i DEF Proceed
  <2>5. call' = 2
    BY <1>1, <2>4 DEF EndCall, Leave
  <2>6. ~Running'
    <3>1. Calls' = Calls /\ Len(Calls) = 1
      BY <1>1
    <3>2. Len(Calls') = 1
      BY <3>1
    <3> QED
      BY <2>5, <3>2 DEF Running
  <2> QED
    BY <1>1, <1>8, <2>3, <2>6 DEF RecoverInv
<1>17. round = 1 \/ round > 1
  BY <1>3
<1> QED
  BY <1>2, <1>17, <1>a, <1>b, <1>c, <1>d, <1>e, <1>f, <1>g, <1>h, <1>i

-----------------------------------------------------------------------------
(* The other actions. *)

LEMMA InitInv ==
  ASSUME Init PROVE IInv
<1>1. TypeInv
  BY InitTypes
<1>2. op = None /\ Calls = << >> /\ call = 1
  BY OtherCalls DEF Init
<1>3. ~Running
  BY <1>2 DEF Running
<1>4. op \notin Transfers /\ op # Recovery
  BY <1>2 DEF Transfers, TransferNames, Recovery, None, Transfer
<1>5. PlaceInv
  BY <1>2, <1>3 DEF Init, PlaceInv, Free
<1> QED
  BY <1>1, <1>4, <1>5 DEF IInv, TransferInv, Sound, RecoverInv

LEMMA StepInv ==
  ASSUME IInv, Step PROVE IInv'
<1>1. TypeInv /\ PlaceInv /\ TransferInv /\ RecoverInv
  BY DEF IInv
<1>2. Running
  BY DEF Step, SetLine, AwaitScl, ReadSda
<1>3. op' = op /\ reg' = reg /\ from' = from
  BY <1>1, <1>2, Onward
<1>4. TypeInv'
  <2>1. b' \in Seq(Bit) /\ rx' \in Seq(Seq(Bit))
    BY <1>1, <1>2, PlaceTypes
  <2>2. status' \in {"ok", "held", "nack"}
    BY <1>1 DEF Step, SetLine, AwaitScl, ReadSda, TypeInv
  <2>3. slave' \in Slaves /\ m_scl' \in Bit /\ m_sda' \in Bit /\ stretch' \in BOOLEAN
    <3>1. CASE SetLine
      <4>1. \E c, d \in Bit : Drive(c, d)
        <5>1. m_scl \in Bit /\ m_sda \in Bit /\ 0 \in Bit /\ 1 \in Bit
          BY <1>1 DEF TypeInv, Bit
        <5>2. next = "sda_bit" => Calls[call].byte[round] \in Bit
          <6>1. ASSUME next = "sda_bit" PROVE Primitive = "write"
            <7>1. Primitive \in {"start", "stop", "write", "read", "recover"}
              BY <1>1, <1>2, InOperation
            <7> QED
              BY <1>1, <1>2, <6>1, <7>1, NextLine
          <6>2. ASSUME Primitive = "write" PROVE Calls[call].byte[round] \in Bit
            <7>1. Calls[call].byte \in Byte /\ round \in 1 .. Bits
              BY <1>1, <1>2, <6>2, InOperation, Rounds
            <7> QED
              BY <7>1 DEF Byte
          <6> QED
            BY <6>1, <6>2
        <5>3. (IF Calls[call].ack THEN 0 ELSE 1) \in Bit
          BY DEF Bit
        <5> QED
          BY <3>1, <5>1, <5>2, <5>3 DEF SetLine
      <4> QED
        BY <1>1, <4>1, DriveTypes
    <3>2. CASE AwaitScl \/ ReadSda
      BY <1>1, <3>2 DEF AwaitScl, ReadSda, lines, TypeInv
    <3> QED
      BY <3>1, <3>2 DEF Step
  <2> QED
    BY <1>1, <1>3, <2>1, <2>2, <2>3 DEF TypeInv
<1>5. PlaceInv'
  BY <1>1, <1>2, PlaceAfter
<1>6. TransferInv'
  <2>1. ASSUME Sound' PROVE TransferInv'
    <3>1. op \in Transfers
      BY <1>3, <2>1 DEF Sound
    <3>2. Primitive \in {"start", "stop", "write", "read"}
      BY <1>1, <1>2, <3>1, InOperation
    <3> QED
      BY <1>1, <1>2, <2>1, <3>2, StartAfter, StopAfter, WriteAfter, ReadAfter
  <2> QED
    BY <2>1 DEF TransferInv
<1>7. RecoverInv'
  <2>1. CASE op = Recovery
    BY <1>1, <1>2, <2>1, RecoverAfter
  <2>2. CASE op # Recovery
    BY <1>3, <2>2 DEF RecoverInv
  <2> QED
    BY <2>1, <2>2
<1> QED
  BY <1>4, <1>5, <1>6, <1>7 DEF IInv

\* The first call of an operation.
Opening ==
  /\ op \in Transfers => /\ Calls[1].do = "start" /\ Len(Calls) \in Nat
                         /\ Len(Calls) > 1 /\ HeardAt(op, 1) = 0 /\ RxAt(op, 1) = 0
  /\ op = Recovery => Calls = <<Plain("recover")>>

LEMMA OpeningHolds == Opening
<1>1. ASSUME op \in Transfers
      PROVE  /\ Calls[1].do = "start" /\ Len(Calls) \in Nat
             /\ Len(Calls) > 1 /\ HeardAt(op, 1) = 0 /\ RxAt(op, 1) = 0
  <2>1. Len(Calls) \in Nat /\ Len(Calls) >= 3
    BY <1>1, CallsOf DEF Transfers, TransferNames
  <2>2. 1 \in 1 .. Len(Calls)
    BY <2>1
  <2> QED
    BY <1>1, <2>1, <2>2, CallFacts
<1> QED
  BY <1>1, OtherCalls DEF Opening

LEMMA BeginInv ==
  ASSUME IInv, NEW o, Begin(o),
         o \in Transfers \/ (o = Recovery /\ ~stretch)
  PROVE  IInv'
<1>1. TypeInv /\ PlaceInv /\ op = None
  BY DEF IInv, Begin
<1>2. /\ op' = o /\ from' = slave.mode
      /\ m_scl' = m_scl /\ m_sda' = m_sda /\ slave' = slave /\ stretch' = stretch
      /\ reg' = reg /\ status' = status /\ b' = b /\ rx' = rx
      /\ call' = call /\ line' = line /\ round' = round
  BY DEF Begin, lines, place
<1>3. /\ call = 1 /\ line = 1 /\ round = 1 /\ b = << >> /\ m_scl = 1 /\ m_sda = 1
      /\ slave.heard = << >> /\ status = "ok" /\ rx = << >>
  <2>1. Calls = << >> /\ Len(Calls) = 0
    BY <1>1, OtherCalls
  <2>2. ~Running
    <3>1. ASSUME Running PROVE FALSE
      <4>1. call \in 1 .. Len(Calls)
        BY <1>1, <3>1 DEF PlaceInv
      <4> QED
        BY <2>1, <4>1
    <3> QED
      BY <3>1
  <2> QED
    BY <1>1, <2>1, <2>2 DEF PlaceInv
<1>4. slave.mode \in Modes /\ (slave.mode = "idle" => slave.drive = 1)
  BY <1>1, SlaveNow
<1>5. TypeInv'
  BY <1>1, <1>2, <1>4 DEF TypeInv
<1>6. o # None
  BY DEF Transfers, TransferNames, Recovery, None, Transfer
<1>7. CASE o \in Transfers
  <2>1. op' \in Transfers
    BY <1>2, <1>7
  <2>2. Calls'[1].do = "start" /\ Len(Calls') \in Nat /\ Len(Calls') > 1
        /\ HeardAt(op', 1) = 0 /\ RxAt(op', 1) = 0
    <3>1. Opening'
      BY OpeningHolds, PTL
    <3> QED
      BY <2>1, <3>1 DEF Opening
  <2>3. Running' /\ Primitive' = "start"
    BY <1>2, <1>3, <2>2 DEF Running, Primitive
  <2>4. 1 \in 1 .. Len(Code("start")) /\ 1 \in 1 .. Loop("start").rounds
        /\ ~(1 > Loop("start").last)
    <3>1. WellShaped("start")
      BY Shape
    <3> QED
      BY <3>1 DEF WellShaped
  <2>5. PlaceInv'
    BY <1>2, <1>3, <1>6, <2>2, <2>3, <2>4 DEF PlaceInv
  <2>6. TransferInv'
    <3>1. ASSUME slave.mode = "idle" PROVE InStart'
      <4>1. First(op'.ws, 0) = << >>
        BY FirstNone
      <4>2. slave'.heard = First(op'.ws, HeardAt(op', call'))
        BY <1>2, <1>3, <2>2, <4>1
      <4> QED
        BY <1>2, <1>3, <1>4, <3>1, <4>2 DEF InStart
    <3>2. rx' = Copies(reg', RxAt(op', call'))
      <4>1. Copies(reg', 0) = << >>
        BY DEF Copies
      <4> QED
        BY <1>2, <1>3, <2>2, <4>1
    <3> QED
      BY <1>2, <2>3, <3>1, <3>2 DEF TransferInv, Sound
  <2>7. RecoverInv'
    BY <1>2, <1>7 DEF RecoverInv, Transfers, TransferNames, Recovery, Transfer
  <2> QED
    BY <1>5, <2>5, <2>6, <2>7 DEF IInv
<1>8. CASE o = Recovery /\ ~stretch
  <2>1. Calls' = <<Plain("recover")>>
    <3>1. Opening'
      BY OpeningHolds, PTL
    <3> QED
      BY <1>2, <1>8, <3>1 DEF Opening
  <2>2. Running' /\ Primitive' = "recover" /\ Len(Calls') = 1
    BY <1>2, <1>3, <2>1 DEF Running, Primitive, Plain
  <2>3. /\ 1 \in 1 .. Len(Code("recover")) /\ 1 \in 1 .. Loop("recover").rounds
        /\ ~(1 > Loop("recover").last)
    <3>1. WellShaped("recover")
      BY Shape
    <3> QED
      BY <3>1 DEF WellShaped
  <2>4. PlaceInv'
    BY <1>2, <1>3, <1>6, <2>2, <2>3 DEF PlaceInv
  <2>5. TransferInv'
    BY <1>2, <1>8 DEF TransferInv, Sound, Transfers, TransferNames, Recovery, Transfer
  <2>6. RecoverInv'
    BY <1>2, <1>3, <1>8, <2>2 DEF RecoverInv
  <2> QED
    BY <1>5, <2>4, <2>5, <2>6 DEF IInv
<1> QED
  BY <1>7, <1>8

LEMMA OperateInv ==
  ASSUME IInv, Operate \/ Recover PROVE IInv'
<1>1. << >> \in Seq(Byte) /\ Writes \subseteq Seq(Byte) /\ MaxRead \in Nat
  BY I2cAssumption
<1>2. /\ Transfer("probe", << >>, 0) \in Transfers
      /\ \A ws \in Writes : Transfer("write", ws, 0) \in Transfers
      /\ \A n \in 1 .. MaxRead : Transfer("read", << >>, n) \in Transfers
      /\ \A ws \in Writes, n \in 1 .. MaxRead :
           Transfer("write_read", ws, n) \in Transfers
  <2>1. Transfer("probe", << >>, 0) \in Transfers
    BY <1>1 DEF Transfer, Transfers, TransferNames
  <2>2. ASSUME NEW ws \in Writes PROVE Transfer("write", ws, 0) \in Transfers
    BY <1>1 DEF Transfer, Transfers, TransferNames
  <2>3. ASSUME NEW n \in 1 .. MaxRead PROVE Transfer("read", << >>, n) \in Transfers
    BY <1>1 DEF Transfer, Transfers, TransferNames
  <2>4. ASSUME NEW ws \in Writes, NEW n \in 1 .. MaxRead
        PROVE  Transfer("write_read", ws, n) \in Transfers
    BY <1>1 DEF Transfer, Transfers, TransferNames
  <2> QED
    BY <2>1, <2>2, <2>3, <2>4
<1>3. CASE Recover
  BY <1>3, BeginInv DEF Recover, Recovery
<1>4. CASE Operate
  <2>1. CASE Begin(Transfer("probe", << >>, 0))
    BY <1>2, <2>1, BeginInv
  <2>2. ASSUME NEW ws \in Writes, Begin(Transfer("write", ws, 0)) PROVE IInv'
    BY <1>2, <2>2, BeginInv
  <2>3. ASSUME NEW n \in 1 .. MaxRead, Begin(Transfer("read", << >>, n)) PROVE IInv'
    BY <1>2, <2>3, BeginInv
  <2>4. ASSUME NEW n \in 1 .. MaxRead, NEW ws \in Writes, Begin(Transfer("write_read", ws, n))
        PROVE  IInv'
    BY <1>2, <2>4, BeginInv
  <2> QED
    BY <1>4, <2>1, <2>2, <2>3, <2>4 DEF Operate
<1> QED
  BY <1>3, <1>4

LEMMA UnstretchInv ==
  ASSUME IInv, Unstretch PROVE IInv'
<1>1. TypeInv /\ PlaceInv /\ TransferInv /\ RecoverInv
  BY DEF IInv
<1>2. /\ stretch /\ stretch' = FALSE /\ m_scl' = m_scl /\ m_sda' = m_sda /\ reg' = reg
      /\ op' = op /\ status' = status /\ call' = call /\ line' = line /\ round' = round
      /\ b' = b /\ rx' = rx /\ from' = from
  BY DEF Unstretch, lines, master, place
<1>3. slave' = IF m_scl = 1 THEN Risen(slave, sda) ELSE slave
  BY <1>1, SclLetGo
<1>4. slave \in Slaves /\ sda \in Bit /\ Risen(slave, sda) \in Slaves
  BY <1>1, SlaveNow, RisenFields
<1>5. TypeInv'
  BY <1>1, <1>2, <1>3, <1>4 DEF TypeInv
<1>6. slave'.heard = slave.heard
  <2>1. Risen(slave, sda).heard = slave.heard
    BY <1>4, RisenFields
  <2> QED
    BY <1>3, <2>1
<1>7. Calls' = Calls /\ Primitive' = Primitive /\ (Running' <=> Running)
      /\ (Sound' <=> Sound) /\ (Addressing' <=> Addressing)
  <2>1. Calls' = Calls
    BY <1>2, SameOp
  <2> QED
    BY <1>2, <2>1 DEF Primitive, Running, Sound, Addressing
<1>8. PlaceInv'
  BY <1>1, <1>2, <1>6, <1>7 DEF PlaceInv
<1>9. RecoverInv'
  BY <1>1, <1>2 DEF RecoverInv
<1>10. TransferInv'
  <2> SUFFICES ASSUME Sound
               PROVE  TransferInv'
    BY <1>7 DEF TransferInv
  <2>1. CASE ~Running
    BY <1>1, <1>2, <1>6, <1>7, <2>1 DEF TransferInv
  <2>2. CASE Running
    <3>1. rx' = Copies(reg', RxAt(op', call'))
      BY <1>1, <1>2, <2>2 DEF TransferInv
    <3>2. Primitive \in {"start", "stop", "write", "read"}
      BY <1>1, <2>2, InOperation DEF Sound
    <3>3. m_scl \in Bit
      BY <1>1 DEF TypeInv
    <3>4. CASE m_scl = 0
      <4>1. slave' = slave
        BY <1>3, <3>4
      <4>2. ASSUME Primitive = "start" PROVE InStart'
        <5>1. InStart
          BY <1>1, <2>2, <4>2 DEF TransferInv
        <5> QED
          BY <1>2, <4>1, <5>1 DEF InStart
      <4>3. ASSUME Primitive = "stop" PROVE InStop'
        <5>1. InStop
          BY <1>1, <2>2, <4>3 DEF TransferInv
        <5> QED
          BY <1>2, <4>1, <5>1 DEF InStop
      <4>4. ASSUME Primitive = "write" PROVE InWrite'
        <5>1. InWrite /\ line \in 1 .. 9
          BY <1>1, <2>2, <4>4, NextLine DEF TransferInv
        <5>2. line # 3
          BY <3>4, <5>1 DEF InWrite
        <5> QED
          BY <1>2, <1>7, <4>1, <5>1, <5>2 DEF InWrite
      <4>5. ASSUME Primitive = "read" PROVE InRead'
        <5>1. InRead /\ line \in 1 .. 10
          BY <1>1, <2>2, <4>5, NextLine DEF TransferInv
        <5>2. line # 8
          BY <3>4, <5>1 DEF InRead
        <5> QED
          BY <1>2, <1>7, <4>1, <5>1, <5>2 DEF InRead
      <4> QED
        BY <1>7, <2>2, <3>1, <3>2, <4>2, <4>3, <4>4, <4>5 DEF TransferInv
    <3>5. CASE m_scl = 1
      <4>1. slave' = Risen(slave, sda)
        BY <1>3, <3>5
      <4>2. ASSUME Primitive = "start" PROVE InStart'
        <5>1. InStart
          BY <1>1, <2>2, <4>2 DEF TransferInv
        <5>2. line # 5 /\ slave.mode \in {"idle", "recv"} /\ slave.drive = 1
          BY <1>2, <5>1 DEF InStart
        <5>3. slave'.mode = slave.mode /\ slave'.drive = 1
          BY <1>4, <4>1, <5>2, RisenFields
        <5> QED
          BY <1>2, <1>6, <5>1, <5>2, <5>3 DEF InStart
      <4>3. ASSUME Primitive = "stop" PROVE InStop'
        <5>1. InStop
          BY <1>1, <2>2, <4>3 DEF TransferInv
        <5>2. slave.mode \in {"idle", "recv"} /\ slave.drive = 1
          BY <5>1 DEF InStop
        <5>3. slave'.mode = slave.mode /\ slave'.drive = 1
          BY <1>4, <4>1, <5>2, RisenFields
        <5> QED
          BY <1>2, <1>6, <5>1, <5>3 DEF InStop
      <4>4. ASSUME Primitive = "write" PROVE InWrite'
        <5> DEFINE w == Calls[call].byte  mode == IF Addressing THEN "addr" ELSE "recv"
        <5>1. InWrite /\ line \in 1 .. 9
          BY <1>1, <2>2, <4>4, NextLine DEF TransferInv
        <5>2. line \in {3, 7}
          BY <1>2, <3>5, <5>1 DEF InWrite
        <5>3. CASE line = 3
          <6>1. /\ slave.mode = mode /\ slave.drive = 1 /\ m_sda = w[round]
                /\ slave.bits = First(w, round - 1)
            BY <1>2, <5>1, <5>3 DEF InWrite
          <6>2. sda = w[round] /\ mode \in {"addr", "recv"}
            BY <1>1, <6>1, SlaveNow
          <6>3. Append(First(w, round - 1), w[round]) = First(w, round)
            <7>1. w \in Byte /\ round \in 1 .. Bits
              BY <1>1, <2>2, <4>4, InOperation, Rounds
            <7>2. round - 1 \in Nat /\ round - 1 + 1 = round
              BY <7>1
            <7>3. \A i \in 1 .. round - 1 + 1 : w[i] \in Bit
              BY <7>1, I2cAssumption DEF Byte
            <7> QED
              BY <7>2, <7>3, FirstGrows
          <6> HIDE DEF mode, w
          <6>4. slave'.mode = mode /\ slave'.drive = 1 /\ slave'.bits = First(w, round)
            <7>1. /\ Risen(slave, sda).mode = slave.mode
                  /\ Risen(slave, sda).bits = Append(slave.bits, sda)
                  /\ Risen(slave, sda).drive = slave.drive
              BY <1>4, <6>1, <6>2, RisenFields
            <7> QED
              BY <4>1, <6>1, <6>2, <6>3, <7>1
          <6> QED
            BY <1>2, <1>6, <1>7, <5>1, <5>3, <6>4 DEF InWrite, mode, w
        <5>4. CASE line = 7
          <6>1. slave.mode \in {"ack_r", "ack_w"}
            BY <5>1, <5>4 DEF InWrite
          <6>2. slave' = slave
            BY <1>4, <4>1, <6>1, RisenFields
          <6> QED
            BY <1>2, <1>7, <5>1, <5>4, <6>2 DEF InWrite
        <5> QED
          BY <5>2, <5>3, <5>4
      <4>5. ASSUME Primitive = "read" PROVE InRead'
        <5> DEFINE ack == Calls[call].ack
        <5>1. InRead /\ line \in 1 .. 10
          BY <1>1, <2>2, <4>5, NextLine DEF TransferInv
        <5>2. line \in {3, 8}
          BY <1>2, <3>5, <5>1 DEF InRead
        <5>3. CASE line = 3
          <6>1. slave.mode = "send"
            BY <5>1, <5>3 DEF InRead
          <6>2. slave' = slave
            BY <1>4, <4>1, <6>1, RisenFields
          <6> QED
            BY <1>2, <1>7, <5>1, <5>3, <6>2 DEF InRead
        <5>4. CASE line = 8
          <6>1. slave.mode = "mack" /\ m_sda = (IF ack THEN 0 ELSE 1) /\ slave.bits = << >>
            BY <1>2, <5>1, <5>4 DEF InRead
          <6>2. sda = m_sda
            BY <1>1, <6>1, SlaveNow
          <6>3. /\ slave'.mode = (IF sda = 0 THEN "more" ELSE "idle") /\ slave'.drive = 1
                /\ slave'.bits = (IF sda = 0 THEN slave.bits ELSE << >>)
            BY <1>4, <4>1, <6>1, RisenFields
          <6>4. slave'.mode = (IF ack THEN "more" ELSE "idle") /\ slave'.bits = << >>
            BY <6>1, <6>2, <6>3
          <6> HIDE DEF ack
          <6> QED
            BY <1>2, <1>6, <1>7, <5>1, <5>4, <6>3, <6>4 DEF InRead, ack
        <5> QED
          BY <5>2, <5>3, <5>4
      <4> QED
        BY <1>7, <2>2, <3>1, <3>2, <4>2, <4>3, <4>4, <4>5 DEF TransferInv
    <3> QED
      BY <3>3, <3>4, <3>5 DEF Bit
  <2> QED
    BY <2>1, <2>2
<1> QED
  BY <1>5, <1>8, <1>9, <1>10 DEF IInv

\* After the operation, or a reset, there is no place to be in.
LEMMA NoneInv ==
  ASSUME op' = None, call' = 1, line' = 1, round' = 1, b' = << >>, rx' = << >>,
         status' = "ok", slave'.heard = << >>, m_scl' = 1, m_sda' = 1
  PROVE  PlaceInv' /\ TransferInv' /\ RecoverInv'
<1>1. Calls' = << >>
  BY DEF Calls, None, Transfer
<1>2. ~Running'
  BY <1>1 DEF Running
<1>3. op' \notin Transfers /\ op' # Recovery
  BY DEF Transfers, TransferNames, Recovery, None, Transfer
<1>4. PlaceInv'
  BY <1>1, <1>2 DEF PlaceInv
<1> QED
  BY <1>3, <1>4 DEF TransferInv, Sound, RecoverInv

LEMMA SilentSlave ==
  ASSUME NEW s \in Slaves
  PROVE  [s EXCEPT !.heard = << >>] \in Slaves /\ [s EXCEPT !.heard = << >>].heard = << >>
<1>1. s \in SlaveRecord /\ (s.mode \in {"idle", "mack"} => s.drive = 1)
  BY SlaveFields
<1>2. << >> \in Seq(Seq(Bit))
  OBVIOUS
<1> QED
  BY <1>1, <1>2 DEF Slaves, SlaveRecord

LEMMA ReturnInv ==
  ASSUME IInv, Return PROVE IInv'
<1>1. TypeInv /\ PlaceInv
  BY DEF IInv
<1>2. line = 1 /\ round = 1 /\ b = << >> /\ m_scl = 1 /\ m_sda = 1
  BY <1>1 DEF Return, PlaceInv
<1>3. slave' \in Slaves /\ slave'.heard = << >>
  BY <1>1, SilentSlave DEF TypeInv, Return
<1>4. PlaceInv' /\ TransferInv' /\ RecoverInv'
  BY <1>2, <1>3, NoneInv DEF Return, lines
<1>5. "idle" \in Modes /\ << >> \in Seq(Seq(Bit))
  BY DEF Modes
<1>6. TypeInv'
  BY <1>1, <1>3, <1>5 DEF TypeInv, Return, lines
<1> QED
  BY <1>4, <1>6 DEF IInv

\* A reset loses nothing but a byte on its way: the slave has heard none.
LEMMA ReactSilent ==
  ASSUME NEW s \in Slaves, NEW c \in Bit, NEW d \in Bit, NEW c1 \in Bit, NEW d1 \in Bit,
         reg \in Byte, c = 0 \/ c1 = 1, s.heard = << >>
  PROVE  React(s, c, d, c1, d1).heard = << >>
<1>1. Risen(s, d1).heard = << >> /\ Started(s).heard = << >> /\ Free(s.heard).heard = << >>
  <2>1. s.heard \in Seq(Seq(Bit))
    BY SlaveFields
  <2>2. Free(s.heard).heard = << >> /\ Started(s).heard = << >>
    BY <2>1, FreeTypes, StartedFields
  <2>3. Risen(s, d1).heard = << >>
    BY RisenFields
  <2> QED
    BY <2>2, <2>3
<1> QED
  BY <1>1 DEF React, Bit

LEMMA ResetInv ==
  ASSUME IInv, Reset PROVE IInv'
<1> DEFINE c == IF stretch THEN 0 ELSE 1
           d == slave.drive
           s == [slave EXCEPT !.heard = << >>]
           s1 == React(s, scl, sda, c, sda)
           s2 == React(s, scl, sda, scl, d)
<1>1. TypeInv
  BY DEF IInv
<1>2. /\ m_scl' = 1 /\ m_sda' = 1 /\ op' = None /\ call' = 1 /\ line' = 1 /\ round' = 1
      /\ b' = << >> /\ rx' = << >> /\ from' = "idle" /\ status' = "ok"
      /\ stretch' = stretch /\ reg' = reg
      /\ slave' \in {React(s1, c, sda, c, d), React(s2, scl, d, c, d)}
  BY DEF Reset
<1>3. s \in Slaves /\ s.heard = << >>
  BY <1>1, SilentSlave DEF TypeInv
<1>4. reg \in Byte /\ scl \in Bit /\ sda \in Bit /\ c \in Bit /\ d \in Bit
      /\ (scl = 0 \/ c = 1)
  BY <1>1, SlaveNow DEF scl, Both, Bit
<1>5. (c = 0 \/ c = 1) /\ (scl = 0 \/ scl = 1)
  BY <1>4 DEF Bit
<1> HIDE DEF c, d, s
<1>6. s1 \in Slaves /\ s1.heard = << >>
  BY <1>3, <1>4, ReactTypes, ReactSilent
<1>7. s2 \in Slaves /\ s2.heard = << >>
  <2>1. s2 \in Slaves
    BY <1>3, <1>4, ReactTypes
  <2>2. s2.heard = << >>
    BY <1>3, <1>4, <1>5, ReactSilent
  <2> QED
    BY <2>1, <2>2
<1> HIDE DEF s1, s2
<1>8. React(s1, c, sda, c, d) \in Slaves /\ React(s1, c, sda, c, d).heard = << >>
  <2>1. React(s1, c, sda, c, d) \in Slaves
    BY <1>4, <1>6, ReactTypes
  <2>2. React(s1, c, sda, c, d).heard = << >>
    BY <1>4, <1>5, <1>6, ReactSilent
  <2> QED
    BY <2>1, <2>2
<1>9. React(s2, scl, d, c, d) \in Slaves /\ React(s2, scl, d, c, d).heard = << >>
  BY <1>4, <1>7, ReactTypes, ReactSilent
<1>10. slave' \in Slaves /\ slave'.heard = << >>
  BY <1>2, <1>8, <1>9
<1>11. PlaceInv' /\ TransferInv' /\ RecoverInv'
  BY <1>2, <1>10, NoneInv
<1>12. "idle" \in Modes /\ << >> \in Seq(Bit) /\ << >> \in Seq(Seq(Bit)) /\ 1 \in Bit
  BY DEF Modes, Bit
<1>13. TypeInv'
  BY <1>1, <1>2, <1>10, <1>12 DEF TypeInv
<1> QED
  BY <1>11, <1>13 DEF IInv

-----------------------------------------------------------------------------
(* The theorems. *)

\* The slave is where the master takes it to be, line by line, whatever
\* transfers are made and whenever the clock is stretched or the MCU reset.
THEOREM Invariance == Spec => []IInv
<1>1. Init => IInv
  BY InitInv
<1>2. IInv /\ [Next]_vars => IInv'
  <2> SUFFICES ASSUME IInv, [Next]_vars
               PROVE  IInv'
    OBVIOUS
  <2>1. CASE Operate \/ Recover
    BY <2>1, OperateInv
  <2>2. CASE SetLine \/ AwaitScl \/ ReadSda
    BY <2>2, StepInv DEF Step
  <2>3. CASE Return
    BY <2>3, ReturnInv
  <2>4. CASE Unstretch
    BY <2>4, UnstretchInv
  <2>5. CASE Reset
    BY <2>5, ResetInv
  <2>6. CASE UNCHANGED vars
    <3>1. /\ m_scl' = m_scl /\ m_sda' = m_sda /\ slave' = slave /\ stretch' = stretch
          /\ reg' = reg /\ op' = op /\ status' = status /\ call' = call /\ line' = line
          /\ round' = round /\ b' = b /\ rx' = rx /\ from' = from
      BY <2>6 DEF vars, lines, master, place
    <3>2. Calls' = Calls
      BY <3>1, SameOp
    <3>3. Primitive' = Primitive /\ (Running' <=> Running) /\ (Addressing' <=> Addressing)
      BY <3>1, <3>2 DEF Primitive, Running, Addressing
    <3>4. TypeInv' /\ PlaceInv' /\ RecoverInv'
      BY <3>1, <3>2, <3>3
         DEF IInv, TypeInv, PlaceInv, RecoverInv, FreeAfterLow, FreeAfterHigh
    <3>5. (InStart' <=> InStart) /\ (InStop' <=> InStop)
      BY <3>1 DEF InStart, InStop
    <3>6. (InWrite' <=> InWrite)
      BY <3>1, <3>2, <3>3 DEF InWrite
    <3>7. (InRead' <=> InRead)
      BY <3>1, <3>2 DEF InRead
    <3>8. TransferInv'
      BY <3>1, <3>3, <3>5, <3>6, <3>7 DEF IInv, TransferInv, Sound
    <3> QED
      BY <3>4, <3>8 DEF IInv
  <2> QED
    BY <2>1, <2>2, <2>3, <2>4, <2>5, <2>6 DEF Next, Run
<1> QED
  BY <1>1, <1>2, PTL DEF Spec

\* What an operation of the software bus reports as done is done: the bytes
\* written are those the slave heard, the bytes read those it sent
\* (i2c_sw.c:130-184), for every length and content.
THEOREM BytesDelivered == Spec => []Delivered
<1>1. IInv => Delivered
  <2> SUFFICES ASSUME IInv, from = "idle", status = "ok"
               PROVE  /\ Done("write") \/ Done("write_read") => slave.heard = op.ws
                      /\ Done("read") \/ Done("write_read") =>
                           rx = [i \in 1 .. op.n |-> reg]
    BY DEF Delivered
  <2>1. TypeInv /\ TransferInv
    BY DEF IInv
  <2>2. ASSUME op.name \in TransferNames, ~Running
        PROVE  slave.heard = op.ws /\ rx = Copies(reg, op.n)
    <3>1. op \in Transfers
      BY <2>1, <2>2 DEF TypeInv, TransferNames, Recovery, None, Transfer
    <3> QED
      BY <2>1, <2>2, <3>1 DEF TransferInv, Sound
  <2> QED
    BY <2>2 DEF Done, TransferNames, Copies
<1> QED
  BY <1>1, Invariance, PTL

\* The nine pulses of op_recover free a slave that a reset has left sending,
\* at whichever bit of its byte (i2c_hw.c:112-153).
THEOREM ReaderFreed == Spec => []RecoverFreesReader
<1>1. IInv => RecoverFreesReader
  <2> SUFFICES ASSUME IInv, Done("recover"), from \in Readers
               PROVE  BusFree
    BY DEF RecoverFreesReader, Readers
  <2>1. TypeInv /\ PlaceInv /\ RecoverInv
    BY DEF IInv
  <2>2. op.name = "recover" /\ ~Running
    BY DEF Done
  <2>3. op = Recovery
    BY <2>1, <2>2 DEF TypeInv, Transfers, TransferNames, None, Transfer
  <2>4. ~stretch /\ slave.mode = "idle" /\ m_scl = 1 /\ m_sda = 1
    BY <2>1, <2>2, <2>3 DEF RecoverInv, PlaceInv
  <2>5. slave.drive = 1
    BY <2>1, <2>4, SlaveNow
  <2> QED
    BY <2>4, <2>5 DEF BusFree, scl, sda, Both
<1> QED
  BY <1>1, Invariance, PTL
=============================================================================
