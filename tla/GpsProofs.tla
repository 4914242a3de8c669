----------------------------- MODULE GpsProofs -----------------------------
(***************************************************************************)
(* Proofs about RingBuf and GpsRx.                                         *)
(*                                                                         *)
(* The ring, for every capacity and every kind of byte: each side keeps    *)
(* the cell it found (HoldsCell), and the ring implements the queue of     *)
(* Fifo.  Put takes effect when head is published and get when tail is;    *)
(* what makes that so is that the cells from tail up to head are left      *)
(* alone by every step but those two.                                      *)
(*                                                                         *)
(* The reception, for every stream, every size of the buffers and wherever *)
(* it starts and ends: the bytes go through the DMA buffer, the interrupt  *)
(* and the ring in order and once each.  What is proved of the ring on its *)
(* own is used through the steps the reception makes it take.              *)
(*                                                                         *)
(* The fix: what is published is no older than what was delivered.         *)
(***************************************************************************)
EXTENDS GpsRx, SequenceTheorems, TLAPS

-----------------------------------------------------------------------------
(* The ring on its own. *)

IInv == TypeOK /\ HoldsCell

(* Indices: going one cell further. *)
LEMMA AfterCell ==
  ASSUME NEW i \in Cells
  PROVE  /\ After(i) \in Cells
         /\ After(i) # i
         /\ \A j \in Cells : After(i) = After(j) => i = j
  BY RingAssumption DEF After, Wrap, Cells

LEMMA InitInv == hk_ringbuf_init => IInv
  BY RingAssumption
     DEF hk_ringbuf_init, IInv, TypeOK, HoldsCell, Cells

LEMMA NextInv == IInv /\ [RingNext]_ring => IInv'
<1> SUFFICES ASSUME IInv, [RingNext]_ring PROVE IInv'
  OBVIOUS
<1> USE DEF IInv, TypeOK, HoldsCell
<1>1. ASSUME NEW b \in Byte, PutCheck(b) PROVE IInv'
  BY <1>1, AfterCell DEF PutCheck
<1>2. CASE PutStore
  BY <1>2, AfterCell DEF PutStore
<1>3. CASE PutPublish
  BY <1>3, AfterCell DEF PutPublish
<1>4. CASE GetCheck
  BY <1>4 DEF GetCheck, hk_ringbuf_is_empty
<1>5. CASE GetLoad
  BY <1>5 DEF GetLoad
<1>6. CASE GetFree
  BY <1>6, AfterCell DEF GetFree
<1>7. CASE UNCHANGED ring
  BY <1>7 DEF ring
<1> QED
  BY <1>1, <1>2, <1>3, <1>4, <1>5, <1>6, <1>7 DEF RingNext

\* Between its check and its last store each side keeps the cell it found,
\* whatever the other does meanwhile (ringbuf.c:51-57 and 63-68).
THEOREM CellsHeld == RingSpec => []HoldsCell
<1>1. IInv => HoldsCell
  BY DEF IInv
<1> QED
  BY InitInv, NextInv, <1>1, PTL DEF RingSpec

-----------------------------------------------------------------------------
(* The queue in the ring. *)

Queued ==
  /\ hk_ringbuf_count \in 0 .. Cap - 1
  /\ items \in Seq(Byte)
  /\ Len(items) = hk_ringbuf_count
  /\ \A i \in 1 .. hk_ringbuf_count :
       /\ Wrap(tail + i - 1) \in Cells
       /\ items[i] = buf[Wrap(tail + i - 1)]

LEMMA ItemsSeq == TypeOK => Queued
<1> SUFFICES ASSUME TypeOK PROVE Queued
  OBVIOUS
<1>1. hk_ringbuf_count \in 0 .. Cap - 1
  BY RingAssumption DEF TypeOK, hk_ringbuf_count, Cells
<1>2. \A i \in 1 .. hk_ringbuf_count : Wrap(tail + i - 1) \in Cells
  BY <1>1, RingAssumption DEF TypeOK, Wrap, Cells
<1>3. items \in [1 .. hk_ringbuf_count -> Byte]
  BY <1>2 DEF items, TypeOK
<1>4. items \in Seq(Byte) /\ Len(items) = hk_ringbuf_count
  BY <1>1, <1>3
<1> QED
  BY <1>1, <1>2, <1>4 DEF items, Queued

\* The occupied cells are those from tail: head is not one of them, and it is
\* the next to be.
LEMMA HeadCell ==
  ASSUME TypeOK
  PROVE  /\ Wrap(tail + hk_ringbuf_count) = head
         /\ \A i \in 1 .. hk_ringbuf_count : Wrap(tail + i - 1) # head
  BY RingAssumption DEF TypeOK, hk_ringbuf_count, Wrap, Cells

LEMMA PublishAppends ==
  ASSUME IInv, PutPublish
  PROVE  items' = Append(items, put_byte) /\ Len(items) < Cap - 1
<1>1. TypeOK /\ TypeOK'
  BY NextInv DEF IInv, RingNext
<1>2. Queued /\ Queued'
  BY <1>1, ItemsSeq, PTL
<1>3. hk_ringbuf_count' = hk_ringbuf_count + 1
  BY <1>1, RingAssumption
     DEF IInv, HoldsCell, PutPublish, hk_ringbuf_count, After, Wrap, Cells,
         TypeOK
<1>4. /\ items' \in Seq(Byte) /\ Len(items') = hk_ringbuf_count + 1
      /\ \A i \in 1 .. hk_ringbuf_count + 1 :
           items'[i] = buf[Wrap(tail + i - 1)]
  BY <1>2, <1>3 DEF Queued, PutPublish, Wrap
<1>5. put_byte \in Byte /\ buf[head] = put_byte
  BY DEF IInv, TypeOK, HoldsCell, PutPublish
<1>6. /\ Append(items, put_byte) \in Seq(Byte)
      /\ Len(Append(items, put_byte)) = hk_ringbuf_count + 1
      /\ \A i \in 1 .. hk_ringbuf_count :
           Append(items, put_byte)[i] = buf[Wrap(tail + i - 1)]
      /\ Append(items, put_byte)[hk_ringbuf_count + 1] = put_byte
  BY <1>2, <1>5, AppendProperties DEF Queued
<1>7. \A i \in 1 .. hk_ringbuf_count + 1 :
        items'[i] = Append(items, put_byte)[i]
  <2> TAKE i \in 1 .. hk_ringbuf_count + 1
  <2>1. CASE i \in 1 .. hk_ringbuf_count
    BY <2>1, <1>4, <1>6
  <2>2. CASE i = hk_ringbuf_count + 1
    <3>1. Wrap(tail + i - 1) = head
      BY <2>2, <1>2, <1>1, HeadCell DEF TypeOK, Cells, Queued
    <3> QED
      BY <2>2, <3>1, <1>4, <1>5, <1>6
  <2> QED
    BY <2>1, <2>2, <1>2 DEF Queued
<1>8. items' = Append(items, put_byte)
  BY <1>4, <1>6, <1>7, SeqEqual
<1>9. Len(items) < Cap - 1
  BY <1>2, <1>3, RingAssumption DEF Queued
<1> QED
  BY <1>8, <1>9

LEMMA FreeTakesHead ==
  ASSUME IInv, GetFree
  PROVE  items # << >> /\ got = Head(items) /\ items' = Tail(items)
<1>1. TypeOK /\ TypeOK'
  BY NextInv DEF IInv, RingNext
<1>2. Queued /\ Queued'
  BY <1>1, ItemsSeq, PTL
<1>3. hk_ringbuf_count >= 1 /\ hk_ringbuf_count' = hk_ringbuf_count - 1
  BY <1>1, RingAssumption
     DEF IInv, HoldsCell, GetFree, hk_ringbuf_count, After, Wrap, Cells,
         TypeOK
<1>4. Wrap(tail) = tail
  BY <1>1, RingAssumption DEF Wrap, Cells, TypeOK
<1>5. items # << >> /\ Head(items) = items[1]
  BY <1>2, <1>3 DEF Queued
<1>6. got = Head(items)
  BY <1>1, <1>2, <1>3, <1>4, <1>5
     DEF IInv, HoldsCell, GetFree, Queued, TypeOK, Cells
<1>7. /\ Tail(items) \in Seq(Byte)
      /\ Len(Tail(items)) = hk_ringbuf_count - 1
      /\ \A i \in 1 .. hk_ringbuf_count - 1 :
           Tail(items)[i] = buf[Wrap(tail + i)]
  BY <1>2, <1>3, <1>5 DEF Queued
<1>8. \A i \in 1 .. hk_ringbuf_count - 1 : Wrap(After(tail) + i - 1) = Wrap(tail + i)
  BY <1>1, RingAssumption
     DEF After, Wrap, Cells, TypeOK, hk_ringbuf_count
<1>9. \A i \in 1 .. hk_ringbuf_count - 1 : items'[i] = Tail(items)[i]
  <2> TAKE i \in 1 .. hk_ringbuf_count - 1
  <2>1. items'[i] = buf'[Wrap(tail + i - 1)']
    BY <1>2, <1>3 DEF Queued
  <2>2. Wrap(tail + i - 1)' = Wrap(After(tail) + i - 1)
    BY DEF Wrap, GetFree
  <2> QED
    BY <2>1, <2>2, <1>7, <1>8 DEF GetFree
<1>10. items' = Tail(items)
  BY <1>2, <1>3, <1>7, <1>9, SeqEqual DEF Queued
<1> QED
  BY <1>5, <1>6, <1>10

LEMMA StoreKeeps ==
  ASSUME IInv, PutStore
  PROVE  items' = items
<1>1. TypeOK /\ TypeOK'
  BY NextInv DEF IInv, RingNext
<1>2. Queued /\ Queued'
  BY <1>1, ItemsSeq, PTL
<1>3. hk_ringbuf_count' = hk_ringbuf_count
  BY DEF PutStore, hk_ringbuf_count
<1>4. \A i \in 1 .. hk_ringbuf_count : items'[i] = items[i]
  BY <1>1, <1>2, <1>3, HeadCell DEF Queued, PutStore, TypeOK, Wrap
<1> QED
  BY <1>2, <1>3, <1>4, SeqEqual DEF Queued

-----------------------------------------------------------------------------
(* The refinement. *)

LEMMA RingStep == IInv /\ [RingNext]_ring => [Fifo!Next]_Fifo!fifo
<1> SUFFICES ASSUME IInv, [RingNext]_ring PROVE [Fifo!Next]_Fifo!fifo
  OBVIOUS
<1>1. TypeOK
  BY DEF IInv
<1>2. ASSUME NEW b \in Byte, PutCheck(b) PROVE [Fifo!Next]_Fifo!fifo
  <2>1. items' = items
    BY <1>2 DEF PutCheck, items, hk_ringbuf_count, Wrap
  <2>2. CASE After(head) = tail
    <3>1. Len(items) = Cap - 1
      <4>1. hk_ringbuf_count = Cap - 1
        BY <1>1, <2>2, RingAssumption
           DEF TypeOK, hk_ringbuf_count, After, Wrap, Cells
      <4> QED
        BY <1>1, <4>1, ItemsSeq DEF Queued
    <3>2. Fifo!Refuse
      BY <1>2, <2>1, <2>2, <3>1 DEF PutCheck, Fifo!Refuse
    <3> QED
      BY <3>2 DEF Fifo!Next
  <2>3. CASE After(head) # tail
    BY <1>2, <2>1, <2>3 DEF PutCheck, Fifo!fifo
  <2> QED
    BY <2>2, <2>3
<1>3. CASE PutStore
  BY <1>3, StoreKeeps DEF PutStore, Fifo!fifo
<1>4. CASE PutPublish
  <2>1. Fifo!Put(put_byte) /\ put_byte \in Byte
    BY <1>1, <1>4, PublishAppends DEF PutPublish, Fifo!Put, TypeOK
  <2> QED
    BY <2>1 DEF Fifo!Next
<1>5. CASE GetCheck
  BY <1>5 DEF GetCheck, Fifo!fifo, items, hk_ringbuf_count, Wrap
<1>6. CASE GetLoad
  BY <1>6 DEF GetLoad, Fifo!fifo, items, hk_ringbuf_count, Wrap
<1>7. CASE GetFree
  <2>1. Fifo!Get
    BY <1>7, FreeTakesHead DEF GetFree, Fifo!Get
  <2> QED
    BY <2>1 DEF Fifo!Next
<1>8. CASE UNCHANGED ring
  BY <1>8 DEF ring, Fifo!fifo, items, hk_ringbuf_count, Wrap
<1> QED
  BY <1>2, <1>3, <1>4, <1>5, <1>6, <1>7, <1>8 DEF RingNext

LEMMA RingInit == hk_ringbuf_init => Fifo!Init
<1> SUFFICES ASSUME hk_ringbuf_init PROVE Fifo!Init
  OBVIOUS
<1>1. hk_ringbuf_count = 0
  BY DEF hk_ringbuf_init, hk_ringbuf_count
<1>2. Queued
  BY InitInv, ItemsSeq DEF IInv
<1>3. items = << >>
  BY <1>1, <1>2 DEF Queued
<1> QED
  BY <1>3 DEF hk_ringbuf_init, Fifo!Init

\* The ring is a queue of Cap - 1 bytes for one producer and one consumer that
\* take no lock, whatever the capacity (ringbuf.h:15-17).
THEOREM RingIsFifo == RingSpec => ImplementsFifo
<1>1. RingSpec => Fifo!Init
  BY RingInit DEF RingSpec
<1> QED
  BY InitInv, NextInv, RingStep, <1>1, PTL
     DEF RingSpec, ImplementsFifo, Fifo!Spec

-----------------------------------------------------------------------------
(* The reception. *)

\* An interrupt is over within one character time after its first, so that no
\* cell it has yet to put is written again.
Prompt == MaxLate <= 1

Queue == chunk \o items

\* The event in service: bytes it has yet to put, the position it ends at, and
\* the bytes received that no event has taken yet.
Remaining == IF writes = << >> THEN 0 ELSE to - from
NextPos   == IF size = 0 THEN last_pos ELSE IF size = DmaCap THEN 0 ELSE size
Rest      == sent - handed - Remaining

\* The cell byte b went to, counted back from where the DMA is.
Back(b) == IF Position > sent - b THEN Position - 1 - (sent - b)
           ELSE Position - 1 - (sent - b) + DmaCap

WireTypes ==
  /\ sent \in Already .. Total /\ handed \in Already .. sent
  /\ dma \in [0 .. DmaCap - 1 -> Byte]
  /\ pending \in {{}, {"TC"}, {"IDLE"}} /\ late \in 0 .. MaxLate
  /\ size \in 0 .. DmaCap /\ last_pos \in 0 .. DmaCap - 1

TaskTypes ==
  /\ fed \in Already .. handed /\ lost \subseteq Already + 1 .. handed
  /\ chunk \in Seq(Byte) /\ seen \in Already .. handed /\ mark \in Already .. handed

\* What the interrupt has taken from the DMA buffer, and what it has not.
WritesInv ==
  IF size = 0 THEN writes = << >>
  ELSE /\ last_pos < size /\ Rest <= late
       /\ writes = << >> \/ \E f \in last_pos .. size : writes = << <<f, size>> >>

PlaceInv ==
  /\ Rest >= 0 /\ sent - handed <= DmaCap
  /\ \/ NextPos + Rest = Position
     \/ NextPos + Rest = DmaCap /\ Position = 0
  /\ "TC" \in pending => NextPos + Rest = DmaCap
  /\ "IDLE" \in pending \/ (rx_on /\ "TC" \notin pending) => NextPos + Rest < DmaCap

CellsInv == \A b \in handed + 1 .. sent : dma[Back(b)] = b

PutInv == put_pc # "idle" => /\ size > 0 /\ writes # << >> /\ from < to
                             /\ put_byte = handed + 1

\* Bytes that wait are as far apart as their places, which makes room count.
QueueInv ==
  /\ \A i, j \in 1 .. Len(Queue) : i <= j => Queue[j] - Queue[i] >= j - i
  /\ {Queue[i] : i \in 1 .. Len(Queue)} = (fed + 1 .. handed) \ lost

PollInv ==
  /\ task \in {"sleep", "read", "feed", "publish"} /\ full \in BOOLEAN
  /\ task \in {"sleep", "publish"} => chunk = << >>
  /\ task = "feed" => chunk # << >>
  /\ \A i \in 1 .. Len(Queue) : Queue[i] > mark
  /\ task = "publish" \/ (task = "feed" /\ ~full) =>
       \A i \in 1 .. Len(items) : items[i] > seen

DmaInv == WireTypes /\ WritesInv /\ PlaceInv /\ CellsInv /\ PutInv

TaskInv == TaskTypes /\ QueueInv /\ PollInv

GpsInv == IInv /\ DmaInv /\ TaskInv

-----------------------------------------------------------------------------
(* Numbers and sequences. *)

LEMMA Sizes ==
  /\ Total \in Nat /\ Already \in 0 .. Total /\ MaxLate \in Nat
  /\ DmaCap \in Nat /\ DmaCap >= 2 /\ ChunkSize \in Nat /\ ChunkSize >= 2
  /\ Byte = 0 .. Total /\ Cap \in Nat /\ Cap >= 2
<1>1. {DmaCap, ChunkSize, LineMax} \subseteq Nat \ {0, 1}
  BY GpsAssumption
<1>2. DmaCap \in Nat \ {0, 1} /\ ChunkSize \in Nat \ {0, 1}
  BY <1>1
<1> QED BY <1>2, GpsAssumption, RingAssumption

\* The DMA goes one cell further and starts anew behind the last.
LEMMA Round ==
  ASSUME NEW p \in Nat, p >= 2, NEW n \in Nat
  PROVE  /\ n % p \in 0 .. p - 1
         /\ (n + 1) % p = IF (n % p) + 1 < p THEN (n % p) + 1 ELSE 0
<1>1. n % p \in 0 .. p - 1
  OBVIOUS
<1>2. (n + 1) % p = IF (n % p) + 1 < p THEN (n % p) + 1 ELSE 0
  <2> DEFINE q == n \div p
             r == n % p
             v == (n + 1) \div p
             w == (n + 1) % p
  <2>1. /\ q \in Int /\ r \in 0 .. p - 1 /\ n = p * q + r
        /\ v \in Int /\ w \in 0 .. p - 1 /\ n + 1 = p * v + w
    OBVIOUS
  <2> HIDE DEF q, r, v, w
  <2>2. ASSUME NEW d \in Int, p * d < p, p * d > -p PROVE d = 0
    <3>1. d >= 1 => p * d >= p
      OBVIOUS
    <3>2. d <= -1 => p * d <= -p
      OBVIOUS
    <3> QED BY <2>2, <3>1, <3>2
  <2>3. CASE r + 1 < p
    <3>1. p * (v - q) = r + 1 - w
      BY <2>1
    <3>2. v - q = 0
      BY <2>1, <2>2, <2>3, <3>1
    <3>3. p * (v - q) = 0
      BY <3>2
    <3>4. w = r + 1
      BY <2>1, <3>1, <3>3
    <3> QED BY <2>3, <3>4 DEF r, w
  <2>4. CASE ~(r + 1 < p)
    <3>1. r = p - 1 /\ p * (v - (q + 1)) = 0 - w
      BY <2>1, <2>4
    <3>2. v - (q + 1) = 0
      BY <2>1, <2>2, <3>1
    <3>3. p * (v - (q + 1)) = 0
      BY <3>2
    <3>4. w = 0
      BY <2>1, <3>1, <3>3
    <3> QED BY <2>4, <3>4 DEF r, w
  <2> QED BY <2>3, <2>4
<1> QED BY <1>1, <1>2

LEMMA AppendEnd ==
  ASSUME NEW S, NEW s \in Seq(S), NEW t \in Seq(S), NEW e \in S
  PROVE  s \o Append(t, e) = Append(s \o t, e)
  OBVIOUS

LEMMA MoveHead ==
  ASSUME NEW S, NEW s \in Seq(S), NEW t \in Seq(S), t # << >>
  PROVE  Append(s, Head(t)) \o Tail(t) = s \o t
  OBVIOUS

LEMMA TailFirst ==
  ASSUME NEW S, NEW s \in Seq(S), NEW t \in Seq(S), s # << >>
  PROVE  /\ Tail(s) \o t = Tail(s \o t) /\ Head(s) = (s \o t)[1]
         /\ s \o t # << >>
  OBVIOUS

-----------------------------------------------------------------------------
(* The cells. *)

LEMMA Places ==
  ASSUME WireTypes
  PROVE  /\ Position \in 0 .. DmaCap - 1
         /\ \A b \in Int : sent - DmaCap < b /\ b <= sent =>
              Back(b) \in 0 .. DmaCap - 1
         /\ sent \in Int /\ handed \in Int /\ Already \in Int
         /\ Already <= handed /\ handed <= sent /\ sent <= Total
<1>1. /\ sent \in Int /\ handed \in Int /\ Already \in Int
      /\ Already <= handed /\ handed <= sent /\ sent <= Total
  BY Sizes DEF WireTypes
<1>2. Position \in 0 .. DmaCap - 1
  <2>1. sent - Already \in Nat
    BY <1>1
  <2> QED BY <2>1, Sizes, Round DEF Position
<1>3. ASSUME NEW b \in Int, sent - DmaCap < b, b <= sent
      PROVE  Back(b) \in 0 .. DmaCap - 1
  <2> DEFINE n == Position
  <2>1. n \in 0 .. DmaCap - 1
    BY <1>2
  <2> HIDE DEF n
  <2>2. (IF n > sent - b THEN n - 1 - (sent - b)
         ELSE n - 1 - (sent - b) + DmaCap) \in 0 .. DmaCap - 1
    BY <1>1, <1>3, <2>1, Sizes
  <2> QED BY <2>2 DEF Back, n
<1> QED BY <1>1, <1>2, <1>3

\* The write in progress.
LEMMA Write ==
  ASSUME WireTypes, WritesInv, writes # << >>
  PROVE  /\ size > 0 /\ writes = << <<from, size>> >> /\ to = size
         /\ from \in last_pos .. size /\ from \in Nat /\ size \in Nat
         /\ Remaining = size - from /\ Tail(writes) = << >>
<1>1. size # 0
  BY DEF WritesInv
<1>2. PICK f \in last_pos .. size : writes = << <<f, size>> >>
  BY <1>1 DEF WritesInv
<1>3. size \in Nat /\ size > 0 /\ last_pos \in Nat /\ f \in Nat
  BY <1>1, Sizes DEF WireTypes
<1>4. from = f /\ to = size /\ Tail(writes) = << >>
  BY <1>2 DEF from, to
<1> QED BY <1>2, <1>3, <1>4 DEF Remaining

LEMMA Counts ==
  ASSUME WireTypes, WritesInv
  PROVE  Remaining \in Nat /\ NextPos \in 0 .. DmaCap - 1 /\ Rest \in Int
<1>1. /\ sent \in Int /\ handed \in Int /\ last_pos \in 0 .. DmaCap - 1
      /\ size \in 0 .. DmaCap /\ DmaCap \in Nat /\ DmaCap >= 2
  BY Places, Sizes DEF WireTypes
<1>2. NextPos \in 0 .. DmaCap - 1
  BY <1>1 DEF NextPos
<1>3. Remaining \in Nat
  <2>1. CASE writes = << >>
    BY <2>1 DEF Remaining
  <2>2. CASE writes # << >>
    <3>1. Remaining = size - from /\ from \in last_pos .. size
      BY <2>2, Write
    <3> QED BY <1>1, <3>1
  <2> QED BY <2>1, <2>2
<1> QED BY <1>1, <1>2, <1>3 DEF Rest

LEMMA Holds ==
  ASSUME Prompt, WireTypes, WritesInv, PlaceInv, CellsInv,
         writes # << >>, from < to
  PROVE  /\ handed + (to - from) <= sent
         /\ \A c \in from .. to - 1 :
              dma[c] = handed + 1 + (c - from) /\ c \in 0 .. DmaCap - 1
<1> DEFINE n == Position
           r == Rest
<1>1. /\ size > 0 /\ to = size /\ from \in Nat /\ size \in Nat
      /\ Remaining = size - from
  BY Write
<1>2. /\ sent \in Int /\ handed \in Int /\ n \in 0 .. DmaCap - 1
      /\ size <= DmaCap /\ DmaCap \in Nat /\ DmaCap >= 2
  BY Places, Sizes DEF WireTypes
<1>3. r = sent - handed - (size - from) /\ r \in Int
  BY <1>1, <1>2 DEF Rest
<1>4. r \in 0 .. 1
  <2>1. r >= 0 /\ r <= late /\ late <= 1 /\ late \in Int
    BY <1>1, Sizes DEF PlaceInv, WritesInv, Prompt, WireTypes
  <2> HIDE DEF r
  <2> QED BY <1>3, <2>1
<1>5. \/ (IF size = DmaCap THEN 0 ELSE size) + r = n
      \/ (IF size = DmaCap THEN 0 ELSE size) + r = DmaCap /\ n = 0
  BY <1>1 DEF PlaceInv, NextPos
<1> HIDE DEF n, r
<1>6. handed + (to - from) <= sent
  BY <1>1, <1>2, <1>3, <1>4
<1>7. ASSUME NEW c \in from .. to - 1
      PROVE  dma[c] = handed + 1 + (c - from) /\ c \in 0 .. DmaCap - 1
  <2> DEFINE b == handed + 1 + (c - from)
  <2>1. c \in Int /\ from <= c /\ c < size
    BY <1>1
  <2>2. b \in handed + 1 .. sent /\ sent - b = size - 1 - c + r
    BY <1>1, <1>2, <1>3, <1>4, <2>1
  <2>3. (IF n > sent - b THEN n - 1 - (sent - b)
         ELSE n - 1 - (sent - b) + DmaCap) = c
    <3> HIDE DEF b
    <3> QED BY <1>1, <1>2, <1>4, <1>5, <2>1, <2>2
  <2>4. Back(b) = c
    BY <2>3 DEF Back, n
  <2> QED BY <1>1, <1>2, <2>1, <2>2, <2>4 DEF CellsInv
<1> QED BY <1>6, <1>7

-----------------------------------------------------------------------------
(* The wire and the interrupt, step by step. *)

LEMMA DmaInit ==
  Init => DmaInv
<1> SUFFICES ASSUME Init PROVE DmaInv
  OBVIOUS
<1>1. /\ sent = Already /\ handed = Already /\ writes = << >> /\ size = 0
      /\ last_pos = 0 /\ pending = {} /\ late = 0 /\ put_pc = "idle"
      /\ dma = [c \in 0 .. DmaCap - 1 |-> 0]
  BY DEF Init, hk_ringbuf_init
<1>2. WireTypes
  BY <1>1, Sizes DEF WireTypes
<1>3. Position = 0 /\ Remaining = 0 /\ NextPos = 0 /\ Rest = 0
  <2>1. sent - Already = 0 /\ 0 % DmaCap = 0
    BY <1>1, Sizes
  <2>2. Position = 0
    BY <2>1 DEF Position
  <2> QED BY <1>1, <2>2, Sizes DEF Remaining, NextPos, Rest
<1>4. CellsInv
  BY <1>1, Sizes DEF CellsInv
<1> QED BY <1>1, <1>2, <1>3, <1>4, Sizes
        DEF DmaInv, WritesInv, PlaceInv, PutInv

\* The next byte takes the cell after the last, that of no byte still waiting.
LEMMA Shift ==
  ASSUME WireTypes, sent < Total, sent' = sent + 1
  PROVE  /\ Position' = IF Position + 1 < DmaCap THEN Position + 1 ELSE 0
         /\ \A b \in Int : b = sent + 1 => Back(b)' = Position
         /\ \A b \in Int : sent + 1 - DmaCap < b /\ b <= sent =>
              Back(b)' = Back(b) /\ Back(b) # Position
<1> DEFINE n == Position
           m == Position'
<1>1. /\ sent \in Int /\ Already \in Int /\ sent - Already \in Nat
      /\ n \in 0 .. DmaCap - 1 /\ DmaCap \in Nat /\ DmaCap >= 2
  BY Places, Sizes
<1>2. m = IF n + 1 < DmaCap THEN n + 1 ELSE 0
  <2>1. sent' - Already = (sent - Already) + 1
    BY <1>1
  <2>2. m = (sent' - Already) % DmaCap
    BY DEF Position
  <2>3. m = ((sent - Already) + 1) % DmaCap
    BY <2>1, <2>2
  <2> QED BY <1>1, <2>3, Round DEF Position
<1>3. ASSUME NEW b \in Int
      PROVE  Back(b)' = IF m > sent' - b THEN m - 1 - (sent' - b)
                        ELSE m - 1 - (sent' - b) + DmaCap
  BY DEF Back
<1>4. ASSUME NEW b \in Int
      PROVE  Back(b) = IF n > sent - b THEN n - 1 - (sent - b)
                       ELSE n - 1 - (sent - b) + DmaCap
  BY DEF Back
<1> HIDE DEF n, m
<1>5. ASSUME NEW b \in Int, b = sent + 1
      PROVE  Back(b)' = n
  BY <1>1, <1>2, <1>3, <1>5
<1>6. ASSUME NEW b \in Int, sent + 1 - DmaCap < b, b <= sent
      PROVE  Back(b)' = Back(b) /\ Back(b) # n
  BY <1>1, <1>2, <1>3, <1>4, <1>6
<1> QED BY <1>2, <1>5, <1>6 DEF n, m

\* A byte comes only when there is a cell for it.
LEMMA RoomForByte ==
  ASSUME Prompt, DmaInv, SendByte
  PROVE  /\ NextPos + Rest = Position /\ sent - handed < DmaCap
         /\ pending = {} /\ rx_on
         /\ size # 0 => late' = late + 1
         /\ late' \in 0 .. MaxLate
<1>1. /\ sent \in Int /\ handed \in Int /\ Position \in 0 .. DmaCap - 1
      /\ size \in Int /\ last_pos \in 0 .. DmaCap - 1 /\ size <= DmaCap
      /\ DmaCap \in Nat /\ late \in Int /\ MaxLate \in Nat /\ 0 <= late
      /\ late <= MaxLate
  BY Places, Sizes DEF DmaInv, WireTypes
<1>2. pending = {} /\ rx_on
  BY DEF SendByte, Passes, Served
<1>3. NextPos + Rest < DmaCap
  BY <1>2 DEF DmaInv, PlaceInv
<1>4. NextPos + Rest = Position
  <2>1. \/ NextPos + Rest = Position
        \/ NextPos + Rest = DmaCap /\ Position = 0
    BY DEF DmaInv, PlaceInv
  <2>2. NextPos + Rest # DmaCap
    BY <1>1, <1>3
  <2> QED BY <2>1, <2>2
<1>5. CASE Served
  <2>1. size = 0 /\ late' = 0 /\ writes = << >>
    BY <1>5 DEF Served, SendByte, Passes, DmaInv, WritesInv
  <2>2. Remaining = 0 /\ NextPos = last_pos /\ Rest = sent - handed
    BY <1>1, <2>1 DEF Remaining, NextPos, Rest
  <2>3. sent - handed < DmaCap
    <3>1. last_pos + (sent - handed) < DmaCap
      BY <1>3, <2>2
    <3> QED BY <1>1, <3>1
  <2> QED BY <1>1, <1>2, <1>4, <2>1, <2>3
<1>6. CASE ~Served
  <2>1. /\ size # 0 /\ late < MaxLate /\ late' = late + 1
        /\ ~ \E w \in {writes[i] : i \in DOMAIN writes} : w[1] = last_pos
    BY <1>2, <1>6 DEF Served, SendByte, Passes
  <2>2. late = 0
    BY <1>1, <2>1 DEF Prompt
  <2>3. Rest = 0
    <3>1. Rest \in Int
      BY Counts DEF DmaInv
    <3>2. Rest <= late /\ Rest >= 0
      BY <2>1 DEF DmaInv, WritesInv, PlaceInv
    <3> QED BY <2>2, <3>1, <3>2
  <2>4. Remaining < DmaCap /\ Remaining \in Int
    <3>1. CASE writes = << >>
      BY <1>1, <3>1, Sizes DEF Remaining
    <3>2. CASE writes # << >>
      <4>1. /\ Remaining = size - from /\ from \in last_pos .. size
            /\ writes = << <<from, size>> >>
        BY <3>2, Write DEF DmaInv
      <4>2. 1 \in DOMAIN writes /\ writes[1] = <<from, size>>
        BY <4>1
      <4>3. from # last_pos
        BY <2>1, <4>2
      <4> QED BY <1>1, <4>1, <4>3
    <3> QED BY <3>1, <3>2
  <2>5. sent - handed < DmaCap
    BY <1>1, <2>3, <2>4 DEF Rest
  <2> QED BY <1>1, <1>2, <1>4, <2>1, <2>5
<1> QED BY <1>5, <1>6

LEMMA SendStep ==
  ASSUME Prompt, DmaInv, SendByte
  PROVE  DmaInv'
<1> DEFINE n == Position
           m == Position'
           r == Rest
           q == NextPos
<1>1. /\ sent' = sent + 1 /\ sent < Total /\ dma' = [dma EXCEPT ![n] = sent + 1]
      /\ pending' = IF n = DmaCap - 1 THEN pending \cup {"TC"} ELSE pending
      /\ UNCHANGED <<rx_on, writes, size, last_pos, handed, put_pc, put_byte>>
  BY DEF SendByte, isr, ring
<1>2. /\ q + r = n /\ sent - handed < DmaCap /\ pending = {}
      /\ size # 0 => late' = late + 1
      /\ late' \in 0 .. MaxLate
  BY RoomForByte
<1>3. /\ sent \in Int /\ handed \in Int /\ n \in 0 .. DmaCap - 1
      /\ Already \in Int /\ Already <= handed /\ handed <= sent
      /\ DmaCap \in Nat /\ DmaCap >= 2 /\ Total \in Nat /\ late \in Int
      /\ 0 <= Already
  BY Places, Sizes DEF DmaInv, WireTypes
<1>4. Remaining' = Remaining /\ NextPos' = q
  BY <1>1 DEF Remaining, NextPos, from, to
<1>5. Remaining \in Int /\ q \in Int /\ r \in Int
  BY Counts, <1>3 DEF DmaInv
<1>6. Rest' = r + 1 /\ r \in Int
  BY <1>1, <1>3, <1>4, <1>5 DEF Rest
<1>7. /\ m = IF n + 1 < DmaCap THEN n + 1 ELSE 0
      /\ \A b \in Int : b = sent + 1 => Back(b)' = n
      /\ \A b \in Int : sent + 1 - DmaCap < b /\ b <= sent =>
           Back(b)' = Back(b) /\ Back(b) # n
  BY <1>1, Shift DEF DmaInv
<1>8. WireTypes'
  <2>1. dma' \in [0 .. DmaCap - 1 -> Byte]
    BY <1>1, <1>3, Sizes DEF DmaInv, WireTypes
  <2>2. pending' \in {{}, {"TC"}}
    BY <1>1, <1>2
  <2>3. sent' \in Already .. Total /\ handed' \in Already .. sent'
    BY <1>1, <1>3
  <2> QED BY <1>1, <1>2, <2>1, <2>2, <2>3 DEF DmaInv, WireTypes
<1>9. WritesInv'
  <2>1. r >= 0 /\ (size # 0 => r <= late)
    BY DEF DmaInv, PlaceInv, WritesInv
  <2>2. size # 0 => Rest' <= late'
    BY <1>2, <1>3, <1>6, <2>1
  <2> QED BY <1>1, <2>2 DEF DmaInv, WritesInv
<1>10. PlaceInv'
  <2>1. r >= 0
    BY DEF DmaInv, PlaceInv
  <2>2. Rest' >= 0 /\ sent' - handed' <= DmaCap
    BY <1>1, <1>2, <1>3, <1>6, <2>1
  <2> HIDE DEF n, m, r, q
  <2>3. CASE n + 1 < DmaCap
    <3>1. pending' = {} /\ q + (r + 1) = m /\ q + (r + 1) < DmaCap
      BY <1>1, <1>2, <1>3, <1>5, <1>6, <1>7, <2>3
    <3>2. NextPos' + Rest' = Position' /\ NextPos' + Rest' < DmaCap
      BY <1>4, <1>6, <3>1 DEF m
    <3> QED BY <2>2, <3>1, <3>2 DEF PlaceInv
  <2>4. CASE ~(n + 1 < DmaCap)
    <3>1. pending' = {"TC"} /\ q + (r + 1) = DmaCap /\ m = 0
      BY <1>1, <1>2, <1>3, <1>5, <1>6, <1>7, <2>4
    <3>2. NextPos' + Rest' = DmaCap /\ Position' = 0
      BY <1>4, <1>6, <3>1 DEF m
    <3> QED BY <2>2, <3>1, <3>2 DEF PlaceInv
  <2> QED BY <2>3, <2>4
<1>11. CellsInv'
  <2> SUFFICES ASSUME NEW b \in handed' + 1 .. sent'
               PROVE  dma'[Back(b)'] = b
    BY DEF CellsInv
  <2>1. b \in Int /\ handed + 1 <= b /\ b <= sent + 1
    BY <1>1, <1>3
  <2>2. dma \in [0 .. DmaCap - 1 -> Byte]
    BY DEF DmaInv, WireTypes
  <2>3. CASE b = sent + 1
    BY <1>1, <1>3, <1>7, <2>1, <2>2, <2>3
  <2>4. CASE b <= sent
    <3>1. sent + 1 - DmaCap < b /\ sent - DmaCap < b
      BY <1>2, <1>3, <2>1
    <3>2. Back(b)' = Back(b) /\ Back(b) # n
      BY <1>7, <2>1, <2>4, <3>1
    <3>3. Back(b) \in 0 .. DmaCap - 1
      BY <2>1, <2>4, <3>1, Places DEF DmaInv
    <3>4. dma[Back(b)] = b
      <4>1. b \in handed + 1 .. sent
        BY <1>3, <2>1, <2>4
      <4> QED BY <4>1 DEF DmaInv, CellsInv
    <3> HIDE DEF n
    <3> QED BY <1>1, <2>2, <3>2, <3>3, <3>4
  <2> QED BY <1>3, <2>1, <2>3, <2>4
<1>12. PutInv'
  BY <1>1 DEF DmaInv, PutInv, from, to
<1> QED BY <1>8, <1>9, <1>10, <1>11, <1>12 DEF DmaInv

\* Steps during which no byte comes.
LEMMA SameCells ==
  ASSUME WireTypes, CellsInv, UNCHANGED <<sent, dma>>,
         NEW h \in Int, handed' = h, handed <= h
  PROVE  CellsInv' /\ Position' = Position
<1>1. Position' = Position
  BY DEF Position
<1>2. \A b \in Int : Back(b)' = Back(b)
  BY <1>1 DEF Back
<1>3. sent \in Int /\ handed \in Int
  BY Places
<1>4. ASSUME NEW b \in h + 1 .. sent
      PROVE  dma'[Back(b)'] = b
  <2>1. b \in handed + 1 .. sent
    BY <1>3
  <2> QED BY <1>2, <1>3, <2>1 DEF CellsInv
<1>5. CellsInv'
  BY <1>4 DEF CellsInv
<1> QED BY <1>1, <1>5

LEMMA IdleStep ==
  ASSUME DmaInv, IdleLine
  PROVE  DmaInv'
<1>1. /\ UNCHANGED <<sent, rx_on, dma, writes, size, last_pos, handed, put_pc,
                     put_byte>>
      /\ rx_on /\ pending = {} /\ pending' = {"IDLE"}
  BY DEF IdleLine, Passes, Served, isr, ring
<1>2. /\ late \in Nat /\ late <= MaxLate /\ MaxLate \in Nat
      /\ Rest \in Int
  BY Sizes, Counts DEF DmaInv, WireTypes
<1>3. late' \in 0 .. MaxLate /\ (size # 0 => late' = late + 1)
  BY <1>2 DEF IdleLine, Passes, Served
<1>4. CellsInv' /\ Position' = Position
  BY <1>1, SameCells, Places DEF DmaInv
<1>5. Rest' = Rest /\ NextPos' = NextPos
  BY <1>1 DEF Rest, Remaining, NextPos, from, to
<1>6. WireTypes'
  BY <1>1, <1>3 DEF DmaInv, WireTypes
<1>7. WritesInv'
  <2>1. size # 0 => Rest' <= late'
    BY <1>2, <1>3, <1>5 DEF DmaInv, WritesInv
  <2> QED BY <1>1, <2>1 DEF DmaInv, WritesInv
<1>8. PlaceInv'
  <2>1. NextPos + Rest < DmaCap
    BY <1>1 DEF DmaInv, PlaceInv
  <2> QED BY <1>1, <1>4, <1>5, <2>1 DEF DmaInv, PlaceInv
<1>9. PutInv'
  BY <1>1 DEF DmaInv, PutInv, from, to
<1> QED BY <1>4, <1>6, <1>7, <1>8, <1>9 DEF DmaInv

LEMMA ErrorStep ==
  ASSUME DmaInv, LineError
  PROVE  DmaInv'
<1>1. /\ UNCHANGED <<sent, dma, late, writes, size, last_pos, handed, put_pc,
                     put_byte>>
      /\ rx_on' = FALSE /\ pending' \subseteq pending
  BY DEF LineError, isr, ring
<1>2. CellsInv' /\ Position' = Position
  BY <1>1, SameCells, Places DEF DmaInv
<1>3. Rest' = Rest /\ NextPos' = NextPos
  BY <1>1 DEF Rest, Remaining, NextPos, from, to
<1>4. pending' \in {{}, {"TC"}, {"IDLE"}}
  BY <1>1 DEF DmaInv, WireTypes
<1>5. WireTypes'
  BY <1>1, <1>4 DEF DmaInv, WireTypes
<1>6. WritesInv'
  BY <1>1, <1>3 DEF DmaInv, WritesInv
<1>7. PlaceInv'
  BY <1>1, <1>2, <1>3 DEF DmaInv, PlaceInv
<1>8. PutInv'
  BY <1>1 DEF DmaInv, PutInv, from, to
<1> QED BY <1>2, <1>5, <1>6, <1>7, <1>8 DEF DmaInv

\* The task's steps do not touch the wire or the interrupt.
LEMMA DmaKept ==
  ASSUME DmaInv, UNCHANGED <<wire, pending, late, isr, handed, put_pc, put_byte>>
  PROVE  DmaInv'
<1>1. UNCHANGED <<sent, rx_on, dma, pending, late, writes, size, last_pos,
                  handed, put_pc, put_byte>>
  BY DEF wire, isr
<1>2. CellsInv' /\ Position' = Position
  BY <1>1, SameCells, Places DEF DmaInv
<1>3. Rest' = Rest /\ NextPos' = NextPos
  BY <1>1 DEF Rest, Remaining, NextPos, from, to
<1>4. WireTypes' /\ WritesInv' /\ PutInv'
  BY <1>1, <1>3 DEF DmaInv, WireTypes, WritesInv, PutInv, from, to
<1>5. PlaceInv'
  BY <1>1, <1>2, <1>3 DEF DmaInv, PlaceInv
<1> QED BY <1>2, <1>4, <1>5 DEF DmaInv

\* The interrupt takes what has come up to the position it is given.
LEMMA EventStep ==
  ASSUME DmaInv, NEW e \in {"TC", "IDLE"}, RxEvent(e)
  PROVE  DmaInv'
<1> DEFINE n == Position
           r == Rest
           q == NextPos
<1>1. /\ UNCHANGED <<sent, rx_on, dma, late, handed, put_pc, put_byte>>
      /\ e \in pending /\ size = 0 /\ pending' = pending \ {e}
  BY DEF RxEvent, wire, ring
<1>2. pending = {e} /\ pending' = {} /\ writes = << >> /\ put_pc = "idle"
  BY <1>1 DEF DmaInv, WireTypes, WritesInv, PutInv
<1>3. CellsInv' /\ Position' = n
  BY <1>1, SameCells, Places DEF DmaInv
<1>4. /\ n \in 0 .. DmaCap - 1 /\ last_pos \in 0 .. DmaCap - 1
      /\ DmaCap \in Nat /\ DmaCap >= 2 /\ r \in Int /\ r >= 0
      /\ sent \in Int /\ handed \in Int /\ sent - handed <= DmaCap
      /\ late \in Nat
  BY Places, Sizes, Counts DEF DmaInv, WireTypes, PlaceInv
<1>5. q = last_pos /\ Remaining = 0 /\ r = sent - handed
  BY <1>1, <1>2, <1>4 DEF NextPos, Remaining, Rest
<1>6. PutInv'
  BY <1>1, <1>2 DEF PutInv
<1>7. ASSUME UNCHANGED isr, q + r < DmaCap
      PROVE  DmaInv'
  <2>1. UNCHANGED <<writes, size, last_pos>>
    BY <1>7 DEF isr
  <2>2. Rest' = Rest /\ NextPos' = NextPos
    BY <1>1, <2>1 DEF Rest, Remaining, NextPos, from, to
  <2>3. WireTypes' /\ WritesInv'
    BY <1>1, <1>2, <2>1 DEF DmaInv, WireTypes, WritesInv
  <2>4. PlaceInv'
    BY <1>1, <1>2, <1>3, <1>7, <2>2 DEF DmaInv, PlaceInv
  <2> QED BY <1>3, <1>6, <2>3, <2>4 DEF DmaInv
<1>8. ASSUME NEW pos \in 1 .. DmaCap, last_pos < pos, last_pos + r = pos,
             n = IF pos = DmaCap THEN 0 ELSE pos,
             size' = pos, last_pos' = last_pos,
             writes' = << <<last_pos, pos>> >>
      PROVE  DmaInv'
  <2>1. from' = last_pos /\ to' = pos /\ writes' # << >>
    BY <1>8 DEF from, to
  <2>2. Remaining' = pos - last_pos
    BY <2>1 DEF Remaining
  <2>3. Rest' = 0
    <3> HIDE DEF r
    <3> QED BY <1>1, <1>4, <1>5, <1>8, <2>2 DEF Rest
  <2>4. NextPos' = n /\ NextPos' < DmaCap
    BY <1>4, <1>8 DEF NextPos
  <2>5. WireTypes'
    BY <1>1, <1>2, <1>4, <1>8 DEF DmaInv, WireTypes
  <2>6. WritesInv'
    <3>1. last_pos' \in last_pos' .. size'
      BY <1>4, <1>8
    <3> QED BY <1>1, <1>4, <1>8, <2>3, <3>1 DEF WritesInv
  <2>7. PlaceInv'
    <3>1. NextPos' + Rest' = Position' /\ NextPos' + Rest' < DmaCap
      BY <1>3, <1>4, <2>3, <2>4
    <3> QED BY <1>1, <1>2, <1>4, <2>3, <3>1 DEF PlaceInv
  <2> QED BY <1>3, <1>6, <2>5, <2>6, <2>7 DEF DmaInv
<1>9. CASE e = "TC"
  <2>1. q + r = DmaCap
    BY <1>2, <1>9 DEF DmaInv, PlaceInv
  <2>2. n = 0
    BY <1>4, <2>1 DEF DmaInv, PlaceInv
  <2>3. hk_uart_dma_on_rx_event(DmaCap)
    BY <1>9 DEF RxEvent
  <2> HIDE DEF n, r, q
  <2> QED BY <1>4, <1>5, <1>8, <2>1, <2>2, <2>3 DEF hk_uart_dma_on_rx_event
<1>10. CASE e = "IDLE"
  <2>1. q + r < DmaCap
    BY <1>2, <1>10 DEF DmaInv, PlaceInv
  <2>2. q + r = n
    <3>1. \/ q + r = n
          \/ q + r = DmaCap /\ n = 0
      BY DEF DmaInv, PlaceInv
    <3> HIDE DEF q, r, n
    <3> QED BY <1>4, <1>5, <2>1, <3>1
  <2>3. IF n = 0 THEN UNCHANGED isr ELSE hk_uart_dma_on_rx_event(n)
    BY <1>10 DEF RxEvent
  <2> HIDE DEF n, r, q
  <2>4. CASE n = 0 \/ n = last_pos
    BY <1>7, <2>1, <2>3, <2>4 DEF hk_uart_dma_on_rx_event
  <2>5. CASE n # 0 /\ n # last_pos
    <3>1. n > last_pos /\ n < DmaCap /\ last_pos + r = n
      BY <1>4, <1>5, <2>2, <2>5
    <3> QED BY <1>4, <1>8, <2>3, <2>5, <3>1 DEF hk_uart_dma_on_rx_event
  <2> QED BY <2>4, <2>5
<1> QED BY <1>9, <1>10

LEMMA PutStep ==
  ASSUME Prompt, IInv, DmaInv, Ingest
  PROVE  DmaInv'
<1> DEFINE g == to - from
           w == Remaining
<1>1. /\ UNCHANGED <<sent, rx_on, dma, pending, late, size, last_pos>>
      /\ size > 0 /\ writes # << >> /\ from < to
  BY DEF Ingest, wire
<1>2. /\ writes = << <<from, size>> >> /\ to = size /\ from \in last_pos .. size
      /\ from \in Nat /\ size \in Nat /\ w = size - from /\ Tail(writes) = << >>
  BY <1>1, Write DEF DmaInv
<1>3. /\ handed + g <= sent
      /\ \A c \in from .. to - 1 :
           dma[c] = handed + 1 + (c - from) /\ c \in 0 .. DmaCap - 1
  BY <1>1, Holds DEF DmaInv
<1>4. /\ sent \in Int /\ handed \in Int /\ sent - handed <= DmaCap
      /\ DmaCap \in Nat /\ last_pos \in Nat /\ last_pos < size /\ Rest \in Int
      /\ Rest = sent - handed - w /\ Already \in Int /\ Already <= handed
  BY <1>1, Places, Sizes, Counts
     DEF DmaInv, WireTypes, PlaceInv, WritesInv, Rest
<1>5. NextPos' = NextPos
  BY <1>1 DEF NextPos
<1>6. ASSUME NEW h \in Int, handed' = h, handed <= h, h <= sent, Rest' = Rest,
             \/ writes' = << >>
             \/ \E f \in last_pos .. size : writes' = << <<f, size>> >>
      PROVE  WireTypes' /\ WritesInv' /\ PlaceInv' /\ CellsInv'
  <2>1. WireTypes'
    BY <1>1, <1>4, <1>6 DEF DmaInv, WireTypes
  <2>2. WritesInv'
    BY <1>1, <1>6 DEF DmaInv, WritesInv
  <2>3. CellsInv' /\ Position' = Position
    BY <1>1, <1>6, SameCells DEF DmaInv
  <2>4. PlaceInv'
    <3>1. sent - h <= DmaCap
      BY <1>4, <1>6
    <3> QED BY <1>1, <1>5, <1>6, <2>3, <3>1 DEF DmaInv, PlaceInv
  <2> QED BY <2>1, <2>2, <2>3, <2>4
<1>7. ASSUME UNCHANGED <<writes, handed>>
      PROVE  WireTypes' /\ WritesInv' /\ PlaceInv' /\ CellsInv'
  <2>1. Rest' = Rest
    BY <1>1, <1>7 DEF Rest, Remaining, from, to
  <2>2. \E f \in last_pos .. size : writes' = << <<f, size>> >>
    BY <1>2, <1>7
  <2>3. handed' = handed /\ handed <= handed /\ handed <= sent
    BY <1>4, <1>7, Places DEF DmaInv
  <2> QED BY <1>4, <1>6, <2>1, <2>2, <2>3
<1>8. CASE PutCheck(dma[from]) /\ put_pc' = "store" /\ UNCHANGED <<writes, handed>>
  <2>1. put_byte' = handed + 1
    <3>1. dma[from] = handed + 1
      BY <1>1, <1>2, <1>3, <1>4
    <3>2. put_byte' = dma[from]
      BY <1>8 DEF PutCheck
    <3> QED BY <3>1, <3>2
  <2>2. PutInv'
    BY <1>1, <1>8, <2>1 DEF PutInv, from, to
  <2>3. WireTypes' /\ WritesInv' /\ PlaceInv' /\ CellsInv'
    BY <1>7, <1>8
  <2> QED BY <2>2, <2>3 DEF DmaInv
<1>9. CASE /\ PutCheck(dma[from]) /\ put_pc' # "store"
           /\ handed' = dma[to - 1] /\ writes' = Tail(writes)
  <2>1. put_pc' = "idle"
    BY <1>9 DEF PutCheck
  <2>2. handed' = handed + g
    BY <1>1, <1>2, <1>3, <1>4, <1>9
  <2>3. writes' = << >> /\ Remaining' = 0
    BY <1>2, <1>9 DEF Remaining
  <2>4. Rest' = Rest
    BY <1>1, <1>2, <1>4, <2>2, <2>3 DEF Rest
  <2>5. WireTypes' /\ WritesInv' /\ PlaceInv' /\ CellsInv'
    BY <1>1, <1>2, <1>3, <1>4, <1>6, <2>2, <2>3, <2>4
  <2>6. PutInv'
    BY <2>1 DEF PutInv
  <2> QED BY <2>5, <2>6 DEF DmaInv
<1>10. CASE PutStore /\ UNCHANGED <<writes, handed>>
  <2>1. PutInv'
    BY <1>1, <1>10 DEF DmaInv, PutInv, PutStore, from, to
  <2>2. WireTypes' /\ WritesInv' /\ PlaceInv' /\ CellsInv'
    BY <1>7, <1>10
  <2> QED BY <2>1, <2>2 DEF DmaInv
<1>11. CASE /\ PutPublish /\ handed' = put_byte
            /\ writes' = [writes EXCEPT ![1] = <<from + 1, to>>]
  <2>1. put_pc' = "idle" /\ handed' = handed + 1
    BY <1>11 DEF PutPublish, DmaInv, PutInv
  <2>2. writes' = << <<from + 1, size>> >>
    BY <1>2, <1>11
  <2>3. Remaining' = w - 1
    <3>1. from' = from + 1 /\ to' = size /\ writes' # << >>
      BY <2>2 DEF from, to
    <3> QED BY <1>2, <3>1 DEF Remaining
  <2>4. Rest' = Rest
    <3> HIDE DEF w
    <3> QED BY <1>1, <1>2, <1>4, <2>1, <2>3 DEF Rest
  <2>5. WireTypes' /\ WritesInv' /\ PlaceInv' /\ CellsInv'
    <3>1. from + 1 \in last_pos .. size /\ handed' <= sent
      BY <1>1, <1>2, <1>3, <1>4, <2>1
    <3> QED BY <1>4, <1>6, <2>1, <2>2, <2>4, <3>1
  <2>6. PutInv'
    BY <2>1 DEF PutInv
  <2> QED BY <2>5, <2>6 DEF DmaInv
<1> QED BY <1>8, <1>9, <1>10, <1>11 DEF Ingest

LEMMA WriteEnds ==
  ASSUME DmaInv, NextWrite \/ EndEvent
  PROVE  DmaInv'
<1>1. /\ UNCHANGED <<sent, rx_on, dma, pending, late, handed, put_pc, put_byte>>
  BY DEF NextWrite, EndEvent, wire, ring
<1>2. CellsInv' /\ Position' = Position
  BY <1>1, SameCells, Places DEF DmaInv
<1>3. /\ size \in 0 .. DmaCap /\ last_pos \in 0 .. DmaCap - 1 /\ DmaCap \in Nat
      /\ DmaCap >= 2
  BY Sizes DEF DmaInv, WireTypes
<1>4. CASE NextWrite
  <2>1. /\ UNCHANGED <<size, last_pos>> /\ writes # << >> /\ from >= to
        /\ writes' = Tail(writes)
    BY <1>4 DEF NextWrite
  <2>2. /\ size > 0 /\ to = size /\ from \in last_pos .. size
        /\ Remaining = size - from /\ Tail(writes) = << >>
    BY <2>1, Write DEF DmaInv
  <2>3. Remaining = 0 /\ ~(from < to)
    BY <1>3, <2>1, <2>2
  <2>4. Rest' = Rest /\ NextPos' = NextPos
    BY <1>1, <2>1, <2>2, <2>3 DEF Rest, Remaining, NextPos
  <2>5. WireTypes' /\ WritesInv'
    BY <1>1, <2>1, <2>2, <2>4 DEF DmaInv, WireTypes, WritesInv
  <2>6. PlaceInv'
    BY <1>1, <1>2, <2>4 DEF DmaInv, PlaceInv
  <2>7. PutInv'
    BY <1>1, <2>3 DEF DmaInv, PutInv
  <2> QED BY <1>2, <2>5, <2>6, <2>7 DEF DmaInv
<1>5. CASE EndEvent
  <2>1. /\ size > 0 /\ writes = << >> /\ writes' = << >> /\ size' = 0
        /\ last_pos' = IF size = DmaCap THEN 0 ELSE size
    BY <1>5 DEF EndEvent
  <2>2. Rest' = Rest
    BY <1>1, <2>1 DEF Rest, Remaining
  <2>3. NextPos' = NextPos
    BY <1>3, <2>1 DEF NextPos
  <2>4. WireTypes' /\ WritesInv'
    BY <1>1, <1>3, <2>1 DEF DmaInv, WireTypes, WritesInv
  <2>5. PlaceInv'
    BY <1>1, <1>2, <2>2, <2>3 DEF DmaInv, PlaceInv
  <2>6. PutInv'
    BY <1>1, <2>1 DEF DmaInv, PutInv
  <2> QED BY <1>2, <2>4, <2>5, <2>6 DEF DmaInv
<1> QED BY <1>4, <1>5

LEMMA DmaStep ==
  ASSUME Prompt, IInv, DmaInv, [Next]_vars
  PROVE  DmaInv'
<1>1. CASE Task
  <2>1. UNCHANGED <<wire, pending, late, isr, handed, put_pc, put_byte>>
    BY <1>1 DEF Task, Wake, Read, ReadEnds, Feed, Publish, GetCheck, GetLoad,
                GetFree, ring
  <2> QED BY <2>1, DmaKept
<1>2. CASE UNCHANGED vars
  <2>1. UNCHANGED <<wire, pending, late, isr, handed, put_pc, put_byte>>
    BY <1>2 DEF vars, ring
  <2> QED BY <2>1, DmaKept
<1> QED BY <1>1, <1>2, SendStep, IdleStep, ErrorStep, EventStep, PutStep, WriteEnds
        DEF Next, Isr

-----------------------------------------------------------------------------
(* The ring and the task. *)

LEMMA RingMoves ==
  ASSUME DmaInv, [Next]_vars
  PROVE  [RingNext]_ring
<1>1. CASE Ingest
  <2>1. /\ size > 0 /\ writes # << >> /\ from < to
        /\ PutCheck(dma[from]) \/ PutStore \/ PutPublish
    BY <1>1 DEF Ingest
  <2>2. to = size /\ from \in Nat /\ size \in 0 .. DmaCap
    BY <2>1, Write DEF DmaInv, WireTypes
  <2>3. dma[from] \in Byte
    BY <2>1, <2>2, Sizes DEF DmaInv, WireTypes
  <2> QED BY <2>1, <2>3 DEF RingNext
<1>2. CASE Read
  BY <1>2 DEF Read, RingNext
<1>3. ASSUME ~Ingest, ~Read PROVE UNCHANGED ring
  BY <1>3 DEF Next, Isr, Task, SendByte, IdleLine, LineError, RxEvent,
              NextWrite, EndEvent, Wake, ReadEnds, Feed, Publish, vars
<1> QED BY <1>1, <1>2, <1>3

LEMMA Waiting ==
  ASSUME IInv, TaskInv
  PROVE  /\ items \in Seq(Byte) /\ chunk \in Seq(Byte) /\ Queue \in Seq(Byte)
         /\ Len(Queue) = Len(chunk) + Len(items)
         /\ \A i \in 1 .. Len(Queue) : Queue[i] \in Nat /\ fed < Queue[i]
                                       /\ Queue[i] <= handed
         /\ \A i \in 1 .. Len(items) : items[i] = Queue[Len(chunk) + i]
<1>1. items \in Seq(Byte) /\ chunk \in Seq(Byte)
  BY ItemsSeq DEF IInv, Queued, TaskInv, TaskTypes
<1>2. /\ Queue \in Seq(Byte) /\ Len(Queue) = Len(chunk) + Len(items)
      /\ \A i \in 1 .. Len(items) : items[i] = Queue[Len(chunk) + i]
  BY <1>1 DEF Queue
<1>3. ASSUME NEW i \in 1 .. Len(Queue)
      PROVE  Queue[i] \in Nat /\ fed < Queue[i] /\ Queue[i] <= handed
  <2>1. Queue[i] \in fed + 1 .. handed
    BY DEF TaskInv, QueueInv
  <2>2. Queue[i] \in Byte
    BY <1>2
  <2> QED BY <2>1, <2>2, Sizes DEF TaskInv, TaskTypes
<1> QED BY <1>1, <1>2, <1>3

LEMMA TaskInit ==
  Init => TaskInv
<1> SUFFICES ASSUME Init PROVE TaskInv
  OBVIOUS
<1>1. /\ chunk = << >> /\ fed = Already /\ handed = Already /\ lost = {}
      /\ seen = Already /\ mark = Already /\ task = "sleep" /\ full = FALSE
      /\ head = 0 /\ tail = 0 /\ hk_ringbuf_init
  BY DEF Init, hk_ringbuf_init
<1>2. items = << >>
  BY <1>1, InitInv, ItemsSeq DEF hk_ringbuf_count, IInv, Queued
<1>3. Queue = << >>
  BY <1>1, <1>2 DEF Queue
<1>4. TaskTypes
  BY <1>1, Sizes DEF TaskTypes
<1>5. QueueInv
  BY <1>1, <1>3, Sizes DEF QueueInv
<1>6. PollInv
  <2>1. 1 .. Len(Queue) = {}
    BY <1>3
  <2> QED BY <1>1, <2>1 DEF PollInv
<1> QED BY <1>4, <1>5, <1>6 DEF TaskInv

\* The byte published is the next in the stream, behind all that wait.
LEMMA PublishStep ==
  ASSUME IInv, DmaInv, TaskInv, PutPublish, handed' = put_byte,
         UNCHANGED <<lost, task, chunk, full, fed, seen, mark>>
  PROVE  TaskInv'
<1> DEFINE n == Len(Queue)
           x == handed + 1
<1>1. handed' = x /\ put_byte = x /\ put_byte \in Byte
  BY DEF PutPublish, DmaInv, PutInv, IInv, TypeOK
<1>2. /\ handed \in Int /\ Already \in Int /\ Already <= handed
  BY Places DEF DmaInv
<1>3. items' = Append(items, x)
  BY <1>1, PublishAppends
<1>4. /\ items \in Seq(Byte) /\ chunk \in Seq(Byte) /\ Queue \in Seq(Byte)
      /\ \A i \in 1 .. n : Queue[i] \in Nat /\ fed < Queue[i] /\ Queue[i] <= handed
  BY Waiting
<1>5. Queue' = Append(Queue, x)
  BY <1>1, <1>3, <1>4, AppendEnd DEF Queue
<1>6. /\ n \in Nat /\ Len(Queue') = n + 1 /\ Queue'[n + 1] = x
      /\ \A i \in 1 .. n : Queue'[i] = Queue[i]
  BY <1>1, <1>4, <1>5
<1>7. /\ fed \in Int /\ fed <= handed /\ Already <= fed
      /\ mark \in Int /\ seen \in Int /\ mark <= handed /\ seen <= handed
      /\ Already <= mark /\ Already <= seen
      /\ lost \subseteq Already + 1 .. handed
  BY <1>2 DEF TaskInv, TaskTypes
<1>8. TaskTypes'
  BY <1>1, <1>2, <1>4, <1>7 DEF TaskTypes
<1>9. QueueInv'
  <2>1. ASSUME NEW i \in 1 .. n + 1, NEW j \in 1 .. n + 1, i <= j
        PROVE  Queue'[j] - Queue'[i] >= j - i
    <3>1. CASE j <= n
      <4>1. i \in 1 .. n /\ j \in 1 .. n
        BY <1>6, <2>1, <3>1
      <4> QED BY <1>6, <2>1, <4>1 DEF TaskInv, QueueInv
    <3>2. CASE j = n + 1 /\ i <= n
      <4>1. i \in 1 .. n /\ n \in 1 .. n /\ i <= n
        BY <1>6, <2>1, <3>2
      <4>2. Queue[n] - Queue[i] >= n - i
        BY <4>1 DEF TaskInv, QueueInv
      <4>3. Queue[n] \in Nat /\ Queue[i] \in Nat /\ Queue[n] <= handed
        BY <1>4, <4>1
      <4>4. x - Queue[i] >= n + 1 - i
        BY <1>2, <1>6, <4>1, <4>2, <4>3
      <4> QED BY <1>6, <3>2, <4>1, <4>4
    <3>3. CASE i = n + 1
      BY <1>2, <1>6, <2>1, <3>3
    <3> QED BY <1>6, <2>1, <3>1, <3>2, <3>3
  <2>2. {Queue'[i] : i \in 1 .. n + 1} = {Queue[i] : i \in 1 .. n} \cup {x}
    BY <1>6
  <2>3. {Queue[i] : i \in 1 .. n} = (fed + 1 .. handed) \ lost
    BY DEF TaskInv, QueueInv
  <2>4. (fed + 1 .. x) \ lost = ((fed + 1 .. handed) \ lost) \cup {x}
    BY <1>2, <1>7
  <2> QED BY <1>1, <1>6, <2>1, <2>2, <2>3, <2>4 DEF QueueInv
<1>10. PollInv'
  <2>1. \A i \in 1 .. n + 1 : Queue'[i] > mark
    BY <1>2, <1>6, <1>7 DEF TaskInv, PollInv
  <2>2. ASSUME \A i \in 1 .. Len(items) : items[i] > seen,
               NEW i \in 1 .. Len(items')
        PROVE  items'[i] > seen
    BY <1>1, <1>2, <1>3, <1>4, <1>7, <2>2
  <2> QED BY <1>6, <2>1, <2>2 DEF TaskInv, PollInv
<1> QED BY <1>8, <1>9, <1>10 DEF TaskInv

\* A refused write drops what has not yet been put, and moves on past it.
LEMMA RefusedStep ==
  ASSUME Prompt, IInv, DmaInv, TaskInv, Ingest,
         put_pc = "idle", put_pc' # "store",
         UNCHANGED <<task, chunk, full, fed, seen, mark>>
  PROVE  /\ TaskInv' /\ After(head) = tail
         /\ lost' \ lost \subseteq handed + 1 .. handed'
<1> DEFINE g == to - from
<1>1. /\ PutCheck(dma[from]) /\ writes # << >> /\ from < to
      /\ lost' = lost \cup {dma[c] : c \in from .. to - 1}
      /\ handed' = dma[to - 1]
  BY DEF Ingest, PutStore, PutPublish
<1>2. After(head) = tail /\ UNCHANGED <<buf, head, tail>>
  BY <1>1 DEF PutCheck
<1>3. from \in Nat /\ to \in Nat
  BY <1>1, Write DEF DmaInv
<1>4. /\ \A c \in from .. to - 1 : dma[c] = handed + 1 + (c - from)
  BY <1>1, Holds DEF DmaInv
<1>5. handed \in Int /\ Already \in Int /\ Already <= handed
  BY Places DEF DmaInv
<1>6. handed' = handed + g /\ g \in Nat
  BY <1>1, <1>3, <1>4, <1>5
<1>7. {dma[c] : c \in from .. to - 1} = handed + 1 .. handed + g
  <2>1. ASSUME NEW b \in handed + 1 .. handed + g
        PROVE  \E c \in from .. to - 1 : dma[c] = b
    <3>1. PICK c \in from .. to - 1 : c = from + (b - handed - 1)
      BY <1>3, <1>5, <1>6
    <3>2. dma[c] = handed + 1 + (c - from)
      BY <1>4
    <3> QED BY <1>3, <1>5, <3>1, <3>2
  <2>2. ASSUME NEW c \in from .. to - 1
        PROVE  dma[c] \in handed + 1 .. handed + g
    BY <1>3, <1>4, <1>5
  <2> QED BY <2>1, <2>2
<1>8. items' = items
  BY <1>2 DEF items, hk_ringbuf_count, Wrap
<1>9. Queue' = Queue
  BY <1>8 DEF Queue
<1> HIDE DEF g
<1>10. TaskTypes'
  <2>1. /\ fed \in Already .. handed + g /\ seen \in Already .. handed + g
        /\ mark \in Already .. handed + g
        /\ lost \cup (handed + 1 .. handed + g) \subseteq Already + 1 .. handed + g
    BY <1>5, <1>6 DEF TaskInv, TaskTypes
  <2>2. chunk' \in Seq(Byte)
    BY DEF TaskInv, TaskTypes
  <2> QED BY <1>1, <1>6, <1>7, <2>1, <2>2 DEF TaskTypes
<1>11. QueueInv'
  <2>1. (fed + 1 .. handed + g) \ (lost \cup (handed + 1 .. handed + g))
          = (fed + 1 .. handed) \ lost
    BY <1>5, <1>6 DEF TaskInv, TaskTypes
  <2> QED BY <1>1, <1>6, <1>7, <1>9, <2>1 DEF TaskInv, QueueInv
<1>12. PollInv'
  BY <1>8, <1>9 DEF TaskInv, PollInv
<1>13. lost' \ lost \subseteq handed + 1 .. handed'
  BY <1>1, <1>6, <1>7
<1> QED BY <1>2, <1>10, <1>11, <1>12, <1>13 DEF TaskInv

\* A byte read from the ring joins the end of the chunk.
LEMMA TakeStep ==
  ASSUME IInv, TaskInv, task = "read", GetFree, chunk' = Append(chunk, got),
         UNCHANGED <<task, full, fed, seen, mark, handed, lost>>
  PROVE  TaskInv'
<1>1. items # << >> /\ got = Head(items) /\ items' = Tail(items)
  BY FreeTakesHead
<1>2. items \in Seq(Byte) /\ chunk \in Seq(Byte)
  BY Waiting
<1>3. Queue' = Queue
  BY <1>1, <1>2, MoveHead DEF Queue
<1>4. TaskTypes'
  <2>1. chunk' \in Seq(Byte)
    BY <1>1, <1>2
  <2> QED BY <2>1 DEF TaskInv, TaskTypes
<1>5. QueueInv'
  BY <1>3 DEF TaskInv, QueueInv
<1>6. PollInv'
  BY <1>3 DEF TaskInv, PollInv
<1> QED BY <1>4, <1>5, <1>6 DEF TaskInv

\* The parser is fed the first byte that waits.
LEMMA FeedStep ==
  ASSUME IInv, TaskInv, DmaInv, Feed
  PROVE  TaskInv'
<1> DEFINE n == Len(Queue)
<1>1. /\ task = "feed" /\ chunk # << >> /\ fed' = Head(chunk) /\ chunk' = Tail(chunk)
      /\ task' = IF Len(chunk) > 1 THEN "feed"
                 ELSE IF full THEN "read" ELSE "publish"
      /\ UNCHANGED <<ring, handed, lost, full, seen, mark>>
  BY DEF Feed, TaskInv, PollInv
<1>2. /\ items \in Seq(Byte) /\ chunk \in Seq(Byte) /\ Queue \in Seq(Byte)
      /\ \A i \in 1 .. n : Queue[i] \in Nat /\ fed < Queue[i] /\ Queue[i] <= handed
  BY Waiting
<1>3. items' = items
  BY <1>1 DEF ring, items, hk_ringbuf_count, Wrap
<1>4. Queue' = Tail(Queue) /\ fed' = Queue[1] /\ Queue # << >>
  BY <1>1, <1>2, <1>3, TailFirst DEF Queue
<1>5. /\ n \in Nat /\ n >= 1 /\ Len(Queue') = n - 1
      /\ \A i \in 1 .. n - 1 : Queue'[i] = Queue[i + 1]
  BY <1>2, <1>4
<1>6. handed \in Int /\ Already \in Int /\ fed \in Int /\ Already <= fed
  BY Places DEF DmaInv, TaskInv, TaskTypes
<1>7. Queue[1] \in Nat /\ fed < Queue[1] /\ Queue[1] <= handed
  BY <1>2, <1>5
<1>8. TaskTypes'
  <2>1. fed' \in Already .. handed
    BY <1>4, <1>6, <1>7
  <2>2. chunk' \in Seq(Byte)
    BY <1>1, <1>2
  <2> QED BY <1>1, <2>1, <2>2 DEF TaskInv, TaskTypes
<1>9. QueueInv'
  <2>1. \A i, j \in 1 .. n - 1 : i <= j => Queue'[j] - Queue'[i] >= j - i
    <3> TAKE i, j \in 1 .. n - 1
    <3> HAVE i <= j
    <3>1. i + 1 \in 1 .. n /\ j + 1 \in 1 .. n /\ i + 1 <= j + 1
      BY <1>5
    <3>2. Queue[j + 1] - Queue[i + 1] >= (j + 1) - (i + 1)
      BY <3>1 DEF TaskInv, QueueInv
    <3>3. (j + 1) - (i + 1) = j - i
      BY <1>5
    <3> QED BY <1>5, <3>2, <3>3
  <2>2. ASSUME NEW i \in 1 .. n - 1
        PROVE  Queue'[i] \in (Queue[1] + 1 .. handed) \ lost
    <3>1. i + 1 \in 1 .. n /\ 1 \in 1 .. n /\ 1 <= i + 1
      BY <1>5
    <3>2. Queue[i + 1] - Queue[1] >= (i + 1) - 1
      BY <3>1 DEF TaskInv, QueueInv
    <3>3. /\ Queue[i + 1] \in (fed + 1 .. handed) \ lost
      BY <3>1 DEF TaskInv, QueueInv
    <3>4. Queue[i + 1] \in Nat /\ Queue[i + 1] <= handed
      BY <1>2, <3>1
    <3>5. Queue[i + 1] >= Queue[1] + 1
      BY <1>5, <1>7, <3>2, <3>4
    <3> QED BY <1>5, <1>6, <1>7, <3>3, <3>4, <3>5
  <2>3. ASSUME NEW b \in (Queue[1] + 1 .. handed) \ lost
        PROVE  \E i \in 1 .. n - 1 : Queue'[i] = b
    <3>1. b \in (fed + 1 .. handed) \ lost
      BY <1>6, <1>7
    <3>2. PICK k \in 1 .. n : Queue[k] = b
      BY <3>1 DEF TaskInv, QueueInv
    <3>3. k # 1
      BY <1>6, <1>7, <3>2
    <3>4. PICK i \in 1 .. n - 1 : i + 1 = k
      <4>1. k - 1 \in 1 .. n - 1 /\ (k - 1) + 1 = k
        BY <1>5, <3>2, <3>3
      <4> QED BY <4>1
    <3> QED BY <1>5, <3>2, <3>4
  <2>4. {Queue'[i] : i \in 1 .. n - 1} = (Queue[1] + 1 .. handed) \ lost
    BY <2>2, <2>3
  <2> QED BY <1>1, <1>4, <1>5, <2>1, <2>4 DEF QueueInv
<1>10. PollInv'
  <2>1. \A i \in 1 .. n - 1 : Queue'[i] > mark
    <3> TAKE i \in 1 .. n - 1
    <3>1. i + 1 \in 1 .. n
      BY <1>5
    <3> QED BY <1>5, <3>1 DEF TaskInv, PollInv
  <2>2. chunk' = << >> <=> ~(Len(chunk) > 1)
    <3>1. Len(chunk) \in Nat /\ Len(chunk) # 0
      BY <1>1, <1>2
    <3>2. Len(chunk') = Len(chunk) - 1 /\ chunk' \in Seq(Byte)
      BY <1>1, <1>2
    <3>3. chunk' = << >> <=> Len(chunk') = 0
      BY <3>2
    <3> QED BY <3>1, <3>2, <3>3
  <2> QED BY <1>1, <1>3, <1>5, <2>1, <2>2 DEF TaskInv, PollInv
<1> QED BY <1>8, <1>9, <1>10 DEF TaskInv

\* Where a poll begins, where the reading ends, where the fix is published.
LEMMA PollStep ==
  ASSUME IInv, TaskInv, DmaInv, Wake \/ ReadEnds \/ Publish
  PROVE  TaskInv'
<1>1. UNCHANGED <<ring, handed, lost, fed>>
  BY DEF Wake, ReadEnds, Publish, parser
<1>2. items' = items
  BY <1>1 DEF ring, items, hk_ringbuf_count, Wrap
<1>3. items \in Seq(Byte) /\ chunk \in Seq(Byte) /\ Len(chunk) \in Nat
  BY Waiting
<1>4. chunk' = chunk
  BY DEF Wake, ReadEnds, Publish, TaskInv, PollInv
<1>5. Queue' = Queue
  BY <1>2, <1>4 DEF Queue
<1>6. QueueInv'
  BY <1>1, <1>5 DEF TaskInv, QueueInv
<1>7. handed \in Already .. handed
  BY Places DEF DmaInv
<1>8. TaskTypes'
  <2>1. seen' \in Already .. handed /\ mark' \in Already .. handed
    BY <1>7 DEF Wake, ReadEnds, Publish, TaskInv, TaskTypes
  <2> QED BY <1>1, <1>4, <2>1 DEF TaskInv, TaskTypes
<1>9. CASE Wake
  BY <1>2, <1>4, <1>5, <1>6, <1>8, <1>9 DEF Wake, TaskInv, PollInv
<1>10. CASE ReadEnds
  <2>1. /\ task = "read" /\ (Len(chunk) = ChunkSize \/ hk_ringbuf_is_empty)
        /\ full' = (Len(chunk) = ChunkSize)
        /\ task' = IF chunk = << >> THEN "publish" ELSE "feed"
        /\ UNCHANGED <<seen, mark>>
    BY <1>10 DEF ReadEnds
  <2>2. hk_ringbuf_is_empty => Len(items) = 0
    BY ItemsSeq DEF hk_ringbuf_is_empty, hk_ringbuf_count, IInv, Queued, TypeOK, Cells
  <2>3. chunk = << >> => Len(chunk) # ChunkSize
    BY Sizes
  <2>4. task' = "publish" \/ (task' = "feed" /\ ~full') => Len(items) = 0
    BY <2>1, <2>2, <2>3
  <2>5. \A i \in 1 .. Len(Queue) : Queue[i] > mark
    BY DEF TaskInv, PollInv
  <2>6. /\ full' \in BOOLEAN /\ task' \in {"publish", "feed"}
        /\ task' = "publish" <=> chunk = << >>
    BY <2>1
  <2>7. PollInv'
    BY <1>2, <1>4, <1>5, <2>1, <2>4, <2>5, <2>6 DEF PollInv
  <2> QED BY <1>6, <1>8, <2>7 DEF TaskInv
<1>11. CASE Publish
  <2>1. /\ task = "publish" /\ task' = "sleep" /\ mark' = seen /\ chunk = << >>
        /\ UNCHANGED <<full, seen>>
    BY <1>11 DEF Publish, TaskInv, PollInv
  <2>2. Queue = items
    BY <1>3, <2>1 DEF Queue
  <2>3. \A i \in 1 .. Len(items) : items[i] > seen
    BY <2>1 DEF TaskInv, PollInv
  <2>4. PollInv'
    BY <1>2, <1>4, <1>5, <2>1, <2>2, <2>3 DEF TaskInv, PollInv
  <2> QED BY <1>6, <1>8, <2>4 DEF TaskInv
<1> QED BY <1>9, <1>10, <1>11

LEMMA TaskKept ==
  ASSUME TaskInv, items' = items,
         UNCHANGED <<handed, lost, task, chunk, full, fed, seen, mark>>
  PROVE  TaskInv'
<1>1. Queue' = Queue
  BY DEF Queue
<1> QED BY <1>1 DEF TaskInv, TaskTypes, QueueInv, PollInv

LEMMA TaskStep ==
  ASSUME Prompt, IInv, DmaInv, TaskInv, [Next]_vars
  PROVE  TaskInv'
<1>1. ASSUME UNCHANGED <<buf, head, tail>> PROVE items' = items
  BY <1>1 DEF items, hk_ringbuf_count, Wrap
<1>2. CASE Ingest
  <2>1. UNCHANGED <<task, chunk, full, fed, seen, mark>>
    BY <1>2 DEF Ingest, parser, poll
  <2>2. CASE put_pc = "idle" /\ put_pc' # "store"
    BY <1>2, <2>1, <2>2, RefusedStep
  <2>3. CASE PutStore /\ UNCHANGED <<handed, lost>>
    BY <2>1, <2>3, StoreKeeps, TaskKept
  <2>4. CASE PutPublish /\ handed' = put_byte /\ lost' = lost
    BY <2>1, <2>4, PublishStep
  <2>5. CASE put_pc' = "store" /\ PutCheck(dma[from]) /\ UNCHANGED <<handed, lost>>
    BY <1>1, <2>1, <2>5, TaskKept DEF PutCheck
  <2> QED BY <1>2, <2>2, <2>3, <2>4, <2>5 DEF Ingest, PutCheck
<1>3. CASE Read
  <2>1. /\ task = "read"
        /\ UNCHANGED <<task, full, fed, seen, mark, handed, lost>>
    BY <1>3 DEF Read, parser
  <2>2. CASE GetFree /\ chunk' = Append(chunk, got)
    BY <2>1, <2>2, TakeStep
  <2>3. CASE (GetCheck \/ GetLoad) /\ UNCHANGED chunk
    BY <1>1, <2>1, <2>3, TaskKept DEF GetCheck, GetLoad
  <2> QED BY <1>3, <2>2, <2>3 DEF Read
<1>4. CASE \/ SendByte \/ IdleLine \/ LineError \/ (\E e \in {"TC", "IDLE"} : RxEvent(e))
           \/ NextWrite \/ EndEvent \/ UNCHANGED vars
  <2>1. UNCHANGED <<buf, head, tail, handed, lost, task, chunk, full, fed, seen, mark>>
    BY <1>4 DEF SendByte, IdleLine, LineError, RxEvent, NextWrite, EndEvent, vars,
                ring, parser, poll
  <2> QED BY <1>1, <2>1, TaskKept
<1> QED BY <1>2, <1>3, <1>4, FeedStep, PollStep DEF Next, Isr, Task

-----------------------------------------------------------------------------
(* The theorems. *)

LEMMA GpsInit ==
  Init => GpsInv
<1> SUFFICES ASSUME Init PROVE GpsInv
  OBVIOUS
<1>1. hk_ringbuf_init
  BY DEF Init
<1> QED BY <1>1, InitInv, DmaInit, TaskInit DEF GpsInv

LEMMA GpsStep ==
  ASSUME Prompt, GpsInv, [Next]_vars
  PROVE  GpsInv'
<1>1. [RingNext]_ring
  BY RingMoves DEF GpsInv
<1> QED BY <1>1, NextInv, DmaStep, TaskStep DEF GpsInv

\* The bytes of the stream keep their order and come once each through the DMA
\* buffer, the interrupt, the ring and the chunk, all but those the ring
\* refused, for every size of the buffers (uart_dma.c:26-43, ringbuf.c:49-70).
THEOREM BytesInOrder ==
  ASSUME Prompt
  PROVE  Spec => []NoByteAstray
<1>1. GpsInv => NoByteAstray
  <2> SUFFICES ASSUME GpsInv PROVE NoByteAstray
    OBVIOUS
  <2>1. /\ Queue \in Seq(Byte)
        /\ \A i \in 1 .. Len(Queue) : Queue[i] \in Nat
    BY Waiting DEF GpsInv
  <2>2. DOMAIN Queue = 1 .. Len(Queue) /\ Len(Queue) \in Nat
    BY <2>1
  <2>3. ASSUME NEW i \in DOMAIN Queue, NEW j \in DOMAIN Queue, i < j
        PROVE  Queue[i] < Queue[j]
    <3>1. Queue[j] - Queue[i] >= j - i
      BY <2>2, <2>3 DEF GpsInv, TaskInv, QueueInv
    <3> QED BY <2>1, <2>2, <2>3, <3>1
  <2>4. {Queue[i] : i \in DOMAIN Queue} = (fed + 1 .. handed) \ lost
    BY <2>2 DEF GpsInv, TaskInv, QueueInv
  <2> QED BY <2>3, <2>4 DEF NoByteAstray, Queue
<1> QED BY <1>1, GpsInit, GpsStep, PTL DEF Spec

\* A refused byte is at least a ring behind the last poll: since that poll
\* began as many bytes have come as the ring has cells (app.c:217-222,
\* gps_ublox.c:22-33).
THEOREM LossIsLag ==
  ASSUME Prompt
  PROVE  Spec => LossMeansLag
<1>1. ASSUME GpsInv, [Next]_vars
      PROVE  [\A b \in lost' \ lost : b - mark >= Cap]_vars
  <2> SUFFICES ASSUME NEW b \in lost' \ lost PROVE b - mark >= Cap
    OBVIOUS
  <2>1. Ingest /\ put_pc = "idle" /\ put_pc' # "store"
    BY <1>1 DEF Next, Isr, Task, SendByte, IdleLine, LineError, RxEvent, Ingest,
                NextWrite, EndEvent, Wake, Read, ReadEnds, Feed, Publish, vars, PutCheck
  <2>2. UNCHANGED <<task, chunk, full, fed, seen, mark>>
    BY <2>1 DEF Ingest, parser, poll
  <2>3. After(head) = tail /\ lost' \ lost \subseteq handed + 1 .. handed'
    BY <1>1, <2>1, <2>2, RefusedStep DEF GpsInv
  <2>4. Len(items) = Cap - 1
    <3>1. hk_ringbuf_count = Cap - 1
      BY <1>1, <2>3, RingAssumption
         DEF GpsInv, IInv, TypeOK, hk_ringbuf_count, After, Wrap, Cells
    <3> QED BY <1>1, <3>1, ItemsSeq DEF GpsInv, IInv, Queued
  <2> DEFINE n == Len(Queue)
  <2>5. n >= Cap - 1 /\ n \in Nat
    <3>1. /\ chunk \in Seq(Byte) /\ Len(Queue) = Len(chunk) + Len(items)
          /\ Queue \in Seq(Byte)
      BY <1>1, Waiting DEF GpsInv
    <3>2. Len(chunk) \in Nat
      BY <3>1
    <3> QED BY <2>4, <3>1, <3>2, Sizes
  <2>6. n \in 1 .. n /\ 1 \in 1 .. n /\ 1 <= n
    BY <2>5, Sizes
  <2>7. Queue[n] - Queue[1] >= n - 1 /\ Queue[1] > mark
    BY <1>1, <2>6 DEF GpsInv, TaskInv, QueueInv, PollInv
  <2>8. Queue[n] \in Nat /\ Queue[1] \in Nat /\ Queue[n] <= handed
    BY <1>1, <2>6, Waiting DEF GpsInv
  <2>9. handed \in Int /\ mark \in Int
    BY <1>1, Places DEF GpsInv, DmaInv, TaskInv, TaskTypes
  <2>10. b \in Int /\ b >= handed + 1
    BY <2>3, <2>9
  <2> HIDE DEF n
  <2> QED BY <2>5, <2>7, <2>8, <2>9, <2>10, Sizes
<1> QED BY <1>1, GpsInit, GpsStep, PTL DEF Spec, LossMeansLag

\* Interrupt and task use the ring as the queue it promises to be, one of them
\* as its producer and the other as its consumer (ringbuf.h:15-17).
THEOREM RingServesGps ==
  ASSUME Prompt
  PROVE  Spec => ImplementsFifo
<1>1. Init => Fifo!Init
  BY RingInit DEF Init
<1>2. ASSUME GpsInv, [Next]_vars
      PROVE  [Fifo!Next]_Fifo!fifo
  BY <1>2, RingMoves, RingStep DEF GpsInv
<1> QED BY <1>1, <1>2, GpsInit, GpsStep, PTL DEF Spec, ImplementsFifo, Fifo!Spec

-----------------------------------------------------------------------------
(* The fix.  The parser has in its line what has come of a sentence so far, *)
(* and every sentence that came whole it has accepted, in order.             *)

LineOf(s, b) == [i \in 1 .. b - First(s) + 1 |-> First(s) + i - 1]

\* The sentence under way, and those that are complete.
LineInv ==
  \A s \in Sentences : Reportable(s) =>
    /\ /\ First(s) <= fed /\ fed < Last(s)
       /\ lost \cap (First(s) .. fed) = {}
       => in_sentence /\ line = LineOf(s, fed)
    /\ Last(s) <= fed /\ lost \cap Bytes(s) = {} => s \in parsed

\* Sentences are accepted behind all that were.
OrderInv ==
  /\ line \in Seq(Byte)
  /\ \A i \in 1 .. Len(line) : line[i] <= fed
  /\ parsed \subseteq {s \in Sentences : Stream[s].type # "OTHER" /\ Last(s) <= fed}
  /\ in_sentence => \A s \in parsed : 1 <= Len(line) => Last(s) < line[1]

\* r said there is a fix, and none accepted since has taken it back, but for an
\* RMC before a GGA without a quality.
Backs(r, f, P) ==
  /\ Says(r) /\ r <= f.n
  /\ Stream[r].position => f.position >= r
  /\ \A t \in P : r < t /\ TakesBack(t) =>
       /\ Stream[r].type = "GGA" /\ Stream[t].type = "RMC"
       /\ \E g \in P : t < g /\ g <= f.n /\ NoQuality(g)

\* The fix holds, field by field, what the accepted sentences said last.
Fold(f, P) ==
  /\ \A p \in P : p <= f.n /\ (Stream[p].position => f.position >= p)
  /\ f.quality \in BOOLEAN /\ f.valid \in BOOLEAN
  /\ f.quality => \E r \in P :
       /\ Stream[r].type = "GGA" /\ Says(r)
       /\ \A t \in P : r < t => ~(Stream[t].type = "GGA" /\ Stream[t].says = "no")
  /\ f.valid => \E r \in P : Backs(r, f, P)

FixInv == LineInv /\ OrderInv /\ Fold(fix, parsed) /\ NoStaleFix

LEMMA StreamSane ==
  /\ Sentences \subseteq Nat \ {0}
  /\ \A s \in Sentences :
       /\ Stream[s].type \in {"GGA", "RMC", "OTHER"}
       /\ Stream[s].says \in {"yes", "no", "none"} /\ Stream[s].position \in BOOLEAN
       /\ First(s) \in Nat /\ Last(s) \in Nat /\ First(s) < Last(s)
  /\ \A s, t \in Sentences : s < t => Last(s) < First(t)
<1>1. Stream \in Seq([type : {"GGA", "RMC", "OTHER"}, says : {"yes", "no", "none"},
                       position : BOOLEAN, first : Nat \ {0}, last : Nat])
  BY GpsAssumption
<1>2. Sentences = 1 .. Len(Stream) /\ Len(Stream) \in Nat
  BY <1>1 DEF Sentences
<1>3. ASSUME NEW R, Stream \in Seq(R) PROVE \A s \in 1 .. Len(Stream) : Stream[s] \in R
  BY <1>3
<1>4. \A s \in Sentences :
        /\ Stream[s].type \in {"GGA", "RMC", "OTHER"}
        /\ Stream[s].says \in {"yes", "no", "none"} /\ Stream[s].position \in BOOLEAN
        /\ First(s) \in Nat /\ Last(s) \in Nat
  <2>1. \A s \in Sentences :
          Stream[s] \in [type : {"GGA", "RMC", "OTHER"}, says : {"yes", "no", "none"},
                        position : BOOLEAN, first : Nat \ {0}, last : Nat]
    BY <1>1, <1>2, <1>3, Zenon
  <2> QED BY <2>1 DEF First, Last
<1> QED BY <1>2, <1>4, GpsAssumption

\* A byte inside a sentence, not its first and not its last, neither begins a
\* line nor ends one; a first byte is the beginning of one sentence only.
LEMMA Inside ==
  ASSUME NEW s \in Sentences
  PROVE  /\ \A c \in Nat : First(s) < c /\ c <= Last(s) => c \notin Dollar
         /\ \A c \in Nat : First(s) <= c /\ c < Last(s) => c \notin Eol
         /\ First(s) \in Dollar /\ Last(s) \in Eol
         /\ \A t \in Sentences : First(t) = First(s) => t = s
<1>1. \A t \in Sentences : t \in Nat /\ (t < s \/ t = s \/ s < t)
  BY StreamSane
<1>2. \A t \in Sentences : First(t) = First(s) => t = s
  BY <1>1, StreamSane
<1>3. ASSUME NEW c \in Nat, First(s) < c, c <= Last(s) PROVE c \notin Dollar
  BY <1>1, <1>3, StreamSane DEF Dollar
<1>4. ASSUME NEW c \in Nat, First(s) <= c, c < Last(s) PROVE c \notin Eol
  BY <1>1, <1>4, StreamSane DEF Eol
<1> QED BY <1>2, <1>3, <1>4 DEF Dollar, Eol

\* One more sentence, behind all that were accepted.
LEMMA FoldStep ==
  ASSUME Fold(fix, parsed),
         parsed \subseteq {p \in Sentences : Stream[p].type # "OTHER"},
         NEW s \in Sentences, Stream[s].type # "OTHER",
         \A p \in parsed : p < s, Parse(s)
  PROVE  Fold(fix', parsed')
<1> DEFINE quality == IF Stream[s].type = "GGA" /\ Stream[s].says # "none"
                      THEN Stream[s].says = "yes" ELSE fix.quality
           valid   == IF Stream[s].type = "GGA" THEN quality
                      ELSE Stream[s].says = "yes"
<1>1. /\ parsed' = parsed \cup {s} /\ fix'.n = s /\ fix'.quality = quality
      /\ fix'.position = IF Stream[s].position THEN s ELSE fix.position
      /\ fix'.valid = valid
  BY DEF Parse
<1>2. s \in Nat /\ \A p \in parsed' : p \in Nat /\ p <= s /\ (p < s \/ p = s)
  BY <1>1, StreamSane
<1>3. \A p \in parsed' : p <= fix'.n /\ (Stream[p].position => fix'.position >= p)
  BY <1>1, <1>2 DEF Fold
<1>4. fix'.quality \in BOOLEAN /\ fix'.valid \in BOOLEAN
  BY <1>1 DEF Fold
<1>5. ASSUME fix'.quality
      PROVE  \E r \in parsed' :
               /\ Stream[r].type = "GGA" /\ Says(r)
               /\ \A t \in parsed' : r < t => ~(Stream[t].type = "GGA" /\ Stream[t].says = "no")
  <2>1. CASE Stream[s].type = "GGA" /\ Stream[s].says # "none"
    <3>1. Says(s)
      BY <1>1, <1>5, <2>1 DEF Says
    <3>2. \A t \in parsed' : ~(s < t)
      BY <1>2
    <3> QED BY <1>1, <2>1, <3>1, <3>2
  <2>2. CASE ~(Stream[s].type = "GGA" /\ Stream[s].says # "none")
    <3>1. PICK r \in parsed :
               /\ Stream[r].type = "GGA" /\ Says(r)
               /\ \A t \in parsed : r < t => ~(Stream[t].type = "GGA" /\ Stream[t].says = "no")
      BY <1>1, <1>5, <2>2 DEF Fold
    <3>2. ~(Stream[s].type = "GGA" /\ Stream[s].says = "no")
      BY <2>2
    <3> QED BY <1>1, <3>1, <3>2
  <2> QED BY <2>1, <2>2
<1>6. ASSUME fix'.valid
      PROVE  \E r \in parsed' : Backs(r, fix', parsed')
  <2>1. CASE Says(s)
    <3>1. \A t \in parsed' : ~(s < t)
      BY <1>2
    <3>2. Backs(s, fix', parsed')
      BY <1>1, <1>2, <1>3, <2>1, <3>1 DEF Backs
    <3> QED BY <1>1, <3>2
  <2>2. CASE ~Says(s)
    <3>1. Stream[s].type = "GGA" /\ NoQuality(s) /\ ~TakesBack(s) /\ fix'.quality
      BY <1>1, <1>6, <2>2, StreamSane DEF Says, NoQuality, TakesBack
    <3>2. PICK r \in parsed' :
               /\ Stream[r].type = "GGA" /\ Says(r)
               /\ \A t \in parsed' : r < t => ~(Stream[t].type = "GGA" /\ Stream[t].says = "no")
      BY <1>5, <3>1
    <3>3. ASSUME NEW t \in parsed', r < t, TakesBack(t)
          PROVE  /\ Stream[t].type = "RMC"
                 /\ \E g \in parsed' : t < g /\ g <= fix'.n /\ NoQuality(g)
      <4>1. Stream[t].type # "GGA"
        BY <3>2, <3>3 DEF TakesBack
      <4>2. Stream[t].type \in {"GGA", "RMC", "OTHER"} /\ Stream[t].type # "OTHER"
        BY <1>1, <3>3, StreamSane
      <4> QED BY <1>1, <1>2, <3>1, <3>3, <4>1, <4>2
    <3>4. Backs(r, fix', parsed')
      BY <1>3, <3>2, <3>3 DEF Backs
    <3> QED BY <3>4
  <2> QED BY <2>1, <2>2
<1> QED BY <1>3, <1>4, <1>5, <1>6 DEF Fold

\* A line that is a whole sentence is that sentence, and behind all accepted.
LEMMA WholeLine ==
  ASSUME NEW s \in Sentences, line = LineOf(s, Last(s) - 1)
  PROVE  /\ Whole(line) /\ Which(line) = s
         /\ Len(line) = Last(s) - First(s) /\ line[1] = First(s)
         /\ line[Len(line)] = Last(s) - 1
<1>1. First(s) \in Nat /\ Last(s) \in Nat /\ First(s) < Last(s)
  BY StreamSane
<1>2. line = [i \in 1 .. Last(s) - First(s) |-> First(s) + i - 1]
  BY <1>1 DEF LineOf
<1>3. Last(s) - First(s) \in Nat /\ 1 <= Last(s) - First(s)
  BY <1>1
<1>4. Len(line) = Last(s) - First(s)
  BY <1>2, <1>3
<1>5. line[1] = First(s) /\ line[Last(s) - First(s)] = Last(s) - 1
  BY <1>1, <1>2, <1>3
<1>6. Which(line) = s
  BY <1>5, Inside DEF Which
<1> QED BY <1>2, <1>4, <1>5, <1>6 DEF Whole

\* The end of a line: nothing, or a sentence behind all that were accepted.
LEMMA Accepted ==
  ASSUME OrderInv, in_sentence, fed \in Nat, NEW c \in Nat, fed < c,
         hk_nmea_parse_sentence(line)
  PROVE  \/ UNCHANGED <<parsed, fix>>
         \/ \E s \in Sentences : /\ Stream[s].type # "OTHER" /\ Last(s) <= c
                                 /\ \A p \in parsed : p < s
                                 /\ Parse(s)
<1> SUFFICES ASSUME ~ UNCHANGED <<parsed, fix>>
             PROVE  \E s \in Sentences : /\ Stream[s].type # "OTHER" /\ Last(s) <= c
                                         /\ \A p \in parsed : p < s
                                         /\ Parse(s)
  OBVIOUS
<1>1. Whole(line) /\ Stream[Which(line)].type # "OTHER" /\ Parse(Which(line))
  BY DEF hk_nmea_parse_sentence
<1>2. PICK s \in Sentences : line = [i \in 1 .. Last(s) - First(s) |-> First(s) + i - 1]
  BY <1>1 DEF Whole
<1>3. First(s) \in Nat /\ Last(s) \in Nat /\ First(s) < Last(s)
  BY StreamSane
<1>4. line = LineOf(s, Last(s) - 1)
  BY <1>2, <1>3 DEF LineOf
<1>5. /\ Which(line) = s /\ line[1] = First(s)
      /\ Len(line) = Last(s) - First(s) /\ line[Len(line)] = Last(s) - 1
  BY <1>4, WholeLine
<1>6. Last(s) <= c
  <2>1. Len(line) \in 1 .. Len(line)
    BY <1>3, <1>5
  <2>2. line[Len(line)] <= fed
    BY <2>1 DEF OrderInv
  <2> QED BY <1>3, <1>5, <2>2
<1>7. ASSUME NEW p \in parsed PROVE p < s
  <2>1. Last(p) < First(s) /\ p \in Sentences
    BY <1>3, <1>5 DEF OrderInv
  <2> QED BY <1>3, <2>1, StreamSane
<1> QED BY <1>1, <1>5, <1>6, <1>7

\* The bytes between the last fed and the next were refused.
LEMMA NextFed ==
  ASSUME IInv, TaskInv, DmaInv, Feed
  PROVE  /\ fed \in Nat /\ fed' \in Nat /\ fed < fed' /\ fed' \in Byte
         /\ \A b \in fed + 1 .. fed' - 1 : b \in lost
         /\ hk_nmea_feed(fed')
         /\ UNCHANGED <<lost, handed, shared, mark, seen>>
<1> DEFINE n == Len(Queue)
<1>1. /\ task = "feed" /\ chunk # << >> /\ fed' = Head(chunk)
      /\ hk_nmea_feed(fed') /\ UNCHANGED <<lost, handed, shared, mark, seen>>
  BY DEF Feed, TaskInv, PollInv
<1>2. /\ items \in Seq(Byte) /\ chunk \in Seq(Byte) /\ Queue \in Seq(Byte)
      /\ \A i \in 1 .. n : Queue[i] \in Nat /\ fed < Queue[i] /\ Queue[i] <= handed
  BY Waiting
<1>3. fed' = Queue[1] /\ Queue # << >>
  BY <1>1, <1>2, TailFirst DEF Queue
<1>4. n \in Nat /\ n >= 1
  BY <1>2, <1>3
<1>5. Queue[1] \in Nat /\ fed < Queue[1] /\ Queue[1] \in Byte /\ Queue[1] <= handed
  BY <1>2, <1>4
<1>6. handed \in Int /\ Already \in Nat /\ fed \in Int /\ Already <= fed
  BY Places, Sizes DEF DmaInv, TaskInv, TaskTypes
<1>7. ASSUME NEW b \in fed + 1 .. fed' - 1, b \notin lost PROVE FALSE
  <2>1. b \in (fed + 1 .. handed) \ lost
    BY <1>3, <1>5, <1>6, <1>7
  <2>2. PICK k \in 1 .. n : Queue[k] = b
    BY <2>1 DEF TaskInv, QueueInv
  <2>3. 1 \in 1 .. n /\ 1 <= k
    BY <1>4
  <2>4. Queue[k] - Queue[1] >= k - 1
    BY <2>3 DEF TaskInv, QueueInv
  <2> QED BY <1>3, <1>4, <1>5, <1>6, <2>2, <2>4
<1> QED BY <1>1, <1>3, <1>5, <1>6, <1>7

\* One byte more in the line of each sentence under way.
LEMMA LineFed ==
  ASSUME IInv, TaskInv, DmaInv, FixInv, Feed
  PROVE  LineInv'
<1> DEFINE c == fed'
<1>1. /\ fed \in Nat /\ c \in Nat /\ fed < c /\ hk_nmea_feed(c) /\ UNCHANGED lost
      /\ \A b \in fed + 1 .. c - 1 : b \in lost
  BY NextFed
<1> HIDE DEF c
<1>2. parsed \subseteq parsed'
  BY <1>1 DEF hk_nmea_feed, hk_nmea_parse_sentence, Parse
<1> SUFFICES ASSUME NEW s \in Sentences, Reportable(s)
             PROVE  /\ /\ First(s) <= c /\ c < Last(s)
                       /\ lost \cap (First(s) .. c) = {}
                       => in_sentence' /\ line' = LineOf(s, c)
                    /\ Last(s) <= c /\ lost \cap Bytes(s) = {} => s \in parsed'
  BY <1>1 DEF LineInv, Reportable, c
<1>3. First(s) \in Nat /\ Last(s) \in Nat /\ First(s) < Last(s)
  BY StreamSane
<1>4. ASSUME NEW b \in Nat, b < c, b \notin lost, b >= fed
      PROVE  fed = b
  BY <1>1, <1>4
<1>5. ASSUME First(s) <= c, c < Last(s), lost \cap (First(s) .. c) = {}
      PROVE  in_sentence' /\ line' = LineOf(s, c)
  <2>1. CASE First(s) = c
    <3>1. c \in Dollar
      BY <2>1, Inside
    <3>2. in_sentence' = TRUE /\ line' = <<c>>
      BY <1>1, <3>1 DEF hk_nmea_feed
    <3>3. LineOf(s, c) = [i \in 1 .. 1 |-> c]
      <4>1. c - First(s) + 1 = 1 /\ \A i \in 1 .. 1 : First(s) + i - 1 = c
        BY <1>1, <2>1
      <4> QED BY <4>1 DEF LineOf
    <3>4. <<c>> = [i \in 1 .. 1 |-> c]
      OBVIOUS
    <3> QED BY <3>2, <3>3, <3>4
  <2>2. CASE First(s) < c
    <3>1. c - 1 \in First(s) .. c /\ c - 1 \notin lost /\ c - 1 \in Nat
      BY <1>1, <1>3, <1>5, <2>2
    <3>2. fed = c - 1
      BY <1>1, <1>4, <3>1
    <3>3. lost \cap (First(s) .. fed) = {}
      BY <1>1, <1>3, <1>5, <3>2
    <3>4. in_sentence /\ line = LineOf(s, fed)
      BY <1>1, <1>3, <1>5, <2>2, <3>2, <3>3 DEF FixInv, LineInv
    <3>5. c \notin Dollar /\ c \notin Eol
      <4>1. c <= Last(s) /\ First(s) <= c
        BY <1>1, <1>3, <1>5, <2>2
      <4> QED BY <1>1, <1>5, <2>2, <4>1, Inside
    <3>6. line = [i \in 1 .. c - First(s) |-> First(s) + i - 1]
      <4>1. fed - First(s) + 1 = c - First(s)
        BY <1>1, <1>3, <3>2
      <4> QED BY <3>4, <4>1 DEF LineOf
    <3>7. c - First(s) \in Nat
      BY <1>1, <1>3, <2>2
    <3>8. Len(line) = c - First(s)
      BY <3>6, <3>7
    <3>9. Len(line) < LineMax - 1
      <4>1. Last(s) - First(s) < LineMax /\ LineMax \in Nat
        BY GpsAssumption DEF Reportable
      <4> QED BY <1>1, <1>3, <1>5, <3>8, <4>1
    <3>10. line' = Append(line, c) /\ in_sentence'
      BY <1>1, <3>4, <3>5, <3>9 DEF hk_nmea_feed
    <3>11. Append(line, c) = LineOf(s, c)
      <4> DEFINE m == c - First(s)
      <4>1. m \in Nat /\ c - First(s) + 1 = m + 1 /\ c = First(s) + (m + 1) - 1
        BY <1>1, <1>3, <3>7
      <4>2. line = [i \in 1 .. m |-> First(s) + i - 1]
        BY <3>6
      <4> HIDE DEF m
      <4>3. Append(line, c) = [i \in 1 .. m + 1 |-> First(s) + i - 1]
        BY <1>1, <1>3, <4>1, <4>2
      <4> QED BY <4>1, <4>3 DEF LineOf
    <3> QED BY <3>10, <3>11
  <2> QED BY <1>1, <1>3, <1>5, <2>1, <2>2
<1>6. ASSUME Last(s) <= c, lost \cap Bytes(s) = {}
      PROVE  s \in parsed'
  <2>1. CASE Last(s) <= fed
    BY <1>2, <1>6, <2>1 DEF FixInv, LineInv
  <2>2. CASE fed < Last(s)
    <3>1. Last(s) \notin lost /\ Last(s) - 1 \notin lost
      BY <1>3, <1>6 DEF Bytes
    <3>2. c = Last(s)
      BY <1>1, <1>3, <1>4, <1>6, <2>2, <3>1
    <3>3. fed = Last(s) - 1
      BY <1>1, <1>3, <1>4, <2>2, <3>1, <3>2
    <3>4. lost \cap (First(s) .. fed) = {}
      BY <1>3, <1>6, <3>3 DEF Bytes
    <3>5. in_sentence /\ line = LineOf(s, Last(s) - 1)
      BY <1>1, <1>3, <2>2, <3>3, <3>4 DEF FixInv, LineInv
    <3>6. c \in Eol /\ c \notin Dollar
      BY <1>1, <1>3, <3>2, Inside
    <3>7. hk_nmea_parse_sentence(line)
      BY <1>1, <3>5, <3>6 DEF hk_nmea_feed
    <3>8. Parse(s)
      BY <3>5, <3>7, WholeLine DEF hk_nmea_parse_sentence, Reportable
    <3> QED BY <3>8 DEF Parse
  <2> QED BY <1>1, <1>3, <2>1, <2>2
<1> QED BY <1>5, <1>6

\* Order, and the fold of what was accepted, after one byte more.
LEMMA OrderFed ==
  ASSUME IInv, TaskInv, DmaInv, FixInv, Feed
  PROVE  OrderInv' /\ Fold(fix', parsed') /\ parsed \subseteq parsed'
<1> DEFINE c == fed'
<1>1. /\ fed \in Nat /\ c \in Nat /\ fed < c /\ c \in Byte /\ hk_nmea_feed(c)
  BY NextFed
<1>2. /\ line \in Seq(Byte) /\ Len(line) \in Nat
      /\ \A i \in 1 .. Len(line) : line[i] <= fed /\ line[i] \in Nat
      /\ \A p \in parsed : p \in Sentences /\ Last(p) \in Nat /\ Last(p) <= fed
      /\ parsed \subseteq {p \in Sentences : Stream[p].type # "OTHER"}
  BY StreamSane, Sizes DEF FixInv, OrderInv
<1>3. CASE \/ c \in Dollar
           \/ ~in_sentence
           \/ c \notin Eol
  <2>1. UNCHANGED <<parsed, fix>>
    BY <1>1, <1>3 DEF hk_nmea_feed
  <2>2. \/ in_sentence' /\ line' = <<c>>
        \/ ~in_sentence' /\ (line' = << >> \/ line' = line)
        \/ in_sentence /\ in_sentence' /\ line' = Append(line, c)
    BY <1>1, <1>3 DEF hk_nmea_feed
  <2>3. line' \in Seq(Byte) /\ \A i \in 1 .. Len(line') : line'[i] <= c
    <3>1. \A i \in 1 .. Len(line) : line[i] <= c
      BY <1>1, <1>2
    <3>2. CASE line' = <<c>>
      BY <1>1, <3>2
    <3>3. CASE line' = << >>
      BY <3>3
    <3>4. CASE line' = line
      BY <1>2, <3>1, <3>4
    <3>5. CASE line' = Append(line, c)
      BY <1>1, <1>2, <3>1, <3>5, AppendProperties
    <3> QED BY <2>2, <3>2, <3>3, <3>4, <3>5
  <2>4. \A p \in parsed : Last(p) <= c
    BY <1>1, <1>2
  <2>5. in_sentence' => \A p \in parsed : 1 <= Len(line') => Last(p) < line'[1]
    <3>1. CASE line' = <<c>>
      BY <1>1, <1>2, <3>1
    <3>2. CASE in_sentence /\ line' = Append(line, c)
      <4>1. CASE Len(line) = 0
        <5>1. line'[1] = c
          BY <1>1, <1>2, <3>2, <4>1, AppendProperties
        <5> QED BY <1>1, <1>2, <5>1
      <4>2. CASE Len(line) # 0
        <5>1. 1 \in 1 .. Len(line) /\ line'[1] = line[1]
          BY <1>1, <1>2, <3>2, <4>2, AppendProperties
        <5>2. 1 <= Len(line)
          BY <5>1
        <5> QED BY <3>2, <5>1, <5>2 DEF FixInv, OrderInv
      <4> QED BY <4>1, <4>2
    <3> QED BY <2>2, <3>1, <3>2
  <2>6. OrderInv'
    BY <1>2, <2>1, <2>3, <2>4, <2>5 DEF OrderInv
  <2> QED BY <2>1, <2>6 DEF FixInv
<1>4. CASE c \notin Dollar /\ in_sentence /\ c \in Eol
  <2>1. in_sentence' = FALSE /\ line' = << >> /\ hk_nmea_parse_sentence(line)
    BY <1>1, <1>4 DEF hk_nmea_feed
  <2>2. line' \in Seq(Byte) /\ 1 .. Len(line') = {}
    BY <2>1
  <2>3. CASE UNCHANGED <<parsed, fix>>
    <3>1. \A p \in parsed : Last(p) <= c
      BY <1>1, <1>2
    <3>2. OrderInv'
      BY <1>2, <2>1, <2>2, <2>3, <3>1 DEF OrderInv
    <3> QED BY <2>3, <3>2 DEF FixInv
  <2>4. ASSUME NEW s \in Sentences, Stream[s].type # "OTHER", Last(s) <= c,
               \A p \in parsed : p < s, Parse(s)
        PROVE  OrderInv' /\ Fold(fix', parsed') /\ parsed \subseteq parsed'
    <3>1. parsed' = parsed \cup {s}
      BY <2>4 DEF Parse
    <3>2. \A p \in parsed' : /\ p \in Sentences /\ Stream[p].type # "OTHER"
                             /\ Last(p) <= c
      BY <1>1, <1>2, <2>4, <3>1
    <3>3. OrderInv'
      BY <2>1, <2>2, <3>2 DEF OrderInv
    <3>4. Fold(fix', parsed')
      BY <1>2, <2>4, FoldStep DEF FixInv
    <3> QED BY <3>1, <3>3, <3>4
  <2> QED BY <1>1, <1>4, <2>1, <2>3, <2>4, Accepted DEF FixInv
<1> QED BY <1>3, <1>4

\* What is published stays so: more is accepted and more is lost, but no more
\* is delivered.
LEMMA StillNotStale ==
  ASSUME NoStaleFix, UNCHANGED <<shared, mark>>,
         parsed \subseteq parsed', lost \subseteq lost'
  PROVE  NoStaleFix'
<1>1. Delivered' \subseteq Delivered
  BY DEF Delivered, Reportable
<1> QED BY <1>1 DEF NoStaleFix

\* Every sentence delivered by the time a poll has ended has been accepted.
LEMMA PublishFix ==
  ASSUME IInv, TaskInv, DmaInv, FixInv, Publish
  PROVE  FixInv'
<1>1. /\ task = "publish" /\ shared' = fix /\ mark' = seen /\ chunk = << >>
      /\ UNCHANGED <<lost, in_sentence, line, fed, parsed, fix>>
  BY DEF Publish, parser, TaskInv, PollInv
<1>2. /\ items \in Seq(Byte) /\ Queue = items
      /\ \A i \in 1 .. Len(items) : items[i] > seen
  BY <1>1, Waiting DEF Queue, TaskInv, PollInv
<1>3. ASSUME NEW b \in Nat, fed < b, b <= seen, b \notin lost PROVE FALSE
  <2>1. handed \in Int /\ fed \in Int /\ seen \in Int /\ seen <= handed
    BY Places DEF DmaInv, TaskInv, TaskTypes
  <2>2. b \in (fed + 1 .. handed) \ lost
    BY <1>3, <2>1
  <2>3. PICK k \in 1 .. Len(items) : items[k] = b
    BY <1>2, <2>2 DEF TaskInv, QueueInv
  <2> QED BY <1>2, <1>3, <2>1, <2>3
<1>4. ASSUME NEW t \in Delivered' PROVE t \in parsed
  <2>1. t \in Sentences /\ Reportable(t) /\ Last(t) <= seen /\ lost \cap Bytes(t) = {}
    BY <1>1 DEF Delivered, Reportable
  <2>2. First(t) \in Nat /\ Last(t) \in Nat /\ First(t) < Last(t)
    BY <2>1, StreamSane
  <2>3. Last(t) \notin lost
    BY <2>1, <2>2 DEF Bytes
  <2>4. fed \in Int
    BY Places DEF DmaInv, TaskInv, TaskTypes
  <2>5. Last(t) <= fed
    BY <1>3, <2>1, <2>2, <2>3, <2>4
  <2> QED BY <2>1, <2>5 DEF FixInv, LineInv
<1>5. NoStaleFix'
  <2>1. \A t \in Delivered' : shared'.n >= t /\ (Stream[t].position => shared'.position >= t)
    <3> TAKE t \in Delivered'
    <3>1. t \in parsed
      BY <1>4
    <3> QED BY <1>1, <3>1 DEF FixInv, Fold
  <2>2. ASSUME shared'.valid
        PROVE  \E s \in parsed' :
                 /\ Says(s) /\ s <= shared'.n
                 /\ Stream[s].position => shared'.position >= s
                 /\ \A t \in Delivered' : s < t /\ TakesBack(t) =>
                      /\ Stream[s].type = "GGA" /\ Stream[t].type = "RMC"
                      /\ \E g \in parsed' : t < g /\ g <= shared'.n /\ NoQuality(g)
    <3>1. PICK r \in parsed : Backs(r, fix, parsed)
      BY <1>1, <2>2 DEF FixInv, Fold
    <3> QED BY <1>1, <1>4, <3>1 DEF Backs
  <2> QED BY <2>1, <2>2 DEF NoStaleFix, Says, TakesBack, NoQuality
<1>6. LineInv' /\ OrderInv' /\ Fold(fix', parsed')
  BY <1>1 DEF FixInv, LineInv, OrderInv, Reportable
<1> QED BY <1>5, <1>6 DEF FixInv

LEMMA FixInit ==
  Init => FixInv
<1> SUFFICES ASSUME Init PROVE FixInv
  OBVIOUS
<1>1. /\ in_sentence = FALSE /\ line = << >> /\ fed = Already /\ parsed = {}
      /\ lost = {} /\ shared = NoFix /\ fix = NoFix /\ mark = Already
  BY DEF Init, hk_nmea_init
<1>2. \A s \in Sentences : Reportable(s) => Already < First(s) /\ Already < Last(s)
  BY StreamSane, Sizes DEF Reportable
<1>3. LineInv
  <2>1. ASSUME NEW s \in Sentences, Reportable(s)
        PROVE  ~(First(s) <= fed) /\ ~(Last(s) <= fed)
    <3>1. /\ First(s) \in Nat /\ Last(s) \in Nat /\ Already \in Nat
          /\ Already < First(s) /\ Already < Last(s)
      BY <1>2, <2>1, StreamSane, Sizes
    <3> QED BY <1>1, <3>1
  <2> QED BY <2>1 DEF LineInv
<1>4. OrderInv
  BY <1>1 DEF OrderInv
<1>5. Fold(fix, parsed)
  BY <1>1 DEF Fold, NoFix
<1>6. Delivered = {}
  <2>1. ASSUME NEW s \in Sentences, Reportable(s), Last(s) <= mark PROVE FALSE
    <3>1. Last(s) \in Nat /\ Already \in Nat /\ Already < Last(s)
      BY <1>2, <2>1, StreamSane, Sizes
    <3> QED BY <1>1, <2>1, <3>1
  <2> QED BY <2>1 DEF Delivered
<1>7. NoStaleFix
  BY <1>1, <1>6 DEF NoStaleFix, NoFix
<1> QED BY <1>3, <1>4, <1>5, <1>7 DEF FixInv

LEMMA FixStep ==
  ASSUME GpsInv, FixInv, [Next]_vars
  PROVE  FixInv'
<1>1. IInv /\ TaskInv /\ DmaInv
  BY DEF GpsInv
<1>2. CASE Feed
  <2>1. LineInv' /\ OrderInv' /\ Fold(fix', parsed') /\ parsed \subseteq parsed'
    BY <1>1, <1>2, LineFed, OrderFed
  <2>2. UNCHANGED <<shared, mark, lost>>
    BY <1>2 DEF Feed
  <2>3. NoStaleFix'
    BY <2>1, <2>2, StillNotStale DEF FixInv
  <2> QED BY <2>1, <2>3 DEF FixInv
<1>3. CASE Publish
  BY <1>1, <1>3, PublishFix
<1>4. CASE ~Feed /\ ~Publish
  <2>1. /\ UNCHANGED <<in_sentence, line, fed, parsed, fix, shared, mark>>
        /\ lost \subseteq lost'
    BY <1>4 DEF Next, Isr, Task, SendByte, IdleLine, LineError, RxEvent, Ingest,
                NextWrite, EndEvent, Wake, Read, ReadEnds, vars, parser, poll
  <2>2. NoStaleFix'
    BY <2>1, StillNotStale DEF FixInv
  <2>3. OrderInv' /\ Fold(fix', parsed')
    BY <2>1 DEF FixInv, OrderInv
  <2>4. LineInv'
    <3> SUFFICES ASSUME NEW s \in Sentences, Reportable(s)
                 PROVE  /\ /\ First(s) <= fed /\ fed < Last(s)
                           /\ lost' \cap (First(s) .. fed) = {}
                           => in_sentence /\ line = LineOf(s, fed)
                        /\ Last(s) <= fed /\ lost' \cap Bytes(s) = {} => s \in parsed
      BY <2>1 DEF LineInv, Reportable
    <3> QED BY <2>1 DEF FixInv, LineInv
  <2> QED BY <2>2, <2>3, <2>4 DEF FixInv
<1> QED BY <1>2, <1>3, <1>4

\* Whatever bytes were lost, however late the task is and in whatever pieces it
\* takes the bytes, what it publishes is no older than what was delivered to
\* it, the position and the validity each on their own (nmea.c:119-145,
\* app.c:217-222).
THEOREM FixNotStale ==
  ASSUME Prompt
  PROVE  Spec => []NoStaleFix
<1>1. Init => GpsInv /\ FixInv
  BY GpsInit, FixInit
<1>2. GpsInv /\ FixInv /\ [Next]_vars => GpsInv' /\ FixInv'
  BY GpsStep, FixStep
<1>3. FixInv => NoStaleFix
  BY DEF FixInv
<1> QED BY <1>1, <1>2, <1>3, PTL DEF Spec
=============================================================================
