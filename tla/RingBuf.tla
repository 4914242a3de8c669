------------------------------ MODULE RingBuf ------------------------------
(***************************************************************************)
(* The byte ring of App/common/ringbuf.c between one producer, which may   *)
(* interrupt the consumer anywhere, and one consumer.  hk_ringbuf_put and  *)
(* hk_ringbuf_get take no lock: each is the sequence of its loads and      *)
(* stores, one step each, in program order.  Only the producer writes head *)
(* and only the consumer writes tail, so the copy of its own index that    *)
(* each takes is that index.  The mask of a capacity that is a power of    *)
(* two is arithmetic modulo the capacity; nothing else about it is used.   *)
(***************************************************************************)
EXTENDS Integers, Sequences

CONSTANTS Byte,   \* what a cell holds
          Cap     \* capacity, cells of storage

ASSUME RingAssumption == Cap \in Nat /\ Cap >= 2 /\ Byte # {}

VARIABLES
  buf, head, tail,
  put_pc, put_byte,   \* where the producer is inside put, and its argument
  get_pc,             \* where the consumer is inside get
  got,                \* the byte it has loaded into *out
  accepted, out       \* what the last put returned, and the last get

ring == <<buf, head, tail, put_pc, put_byte, get_pc, got, accepted, out>>

Cells == 0 .. Cap - 1

Wrap(i)  == IF i >= Cap THEN i - Cap ELSE i
After(i) == Wrap(i + 1)

hk_ringbuf_count    == IF tail <= head THEN head - tail ELSE head - tail + Cap
hk_ringbuf_free     == Cap - 1 - hk_ringbuf_count
hk_ringbuf_is_empty == head = tail

-----------------------------------------------------------------------------
(* hk_ringbuf_put: refuse when full, store the byte, then publish it. *)

PutCheck(b) ==
  /\ put_pc = "idle"
  /\ IF After(head) = tail
     THEN accepted' = FALSE /\ UNCHANGED <<put_pc, put_byte>>
     ELSE put_pc' = "store" /\ put_byte' = b /\ UNCHANGED accepted
  /\ UNCHANGED <<buf, head, tail, get_pc, got, out>>

PutStore ==
  /\ put_pc = "store"
  /\ buf' = [buf EXCEPT ![head] = put_byte]
  /\ put_pc' = "publish"
  /\ UNCHANGED <<head, tail, put_byte, get_pc, got, accepted, out>>

PutPublish ==
  /\ put_pc = "publish"
  /\ head' = After(head)
  /\ put_pc' = "idle" /\ accepted' = TRUE
  /\ UNCHANGED <<buf, tail, put_byte, get_pc, got, out>>

(* hk_ringbuf_get: nothing when empty, load the byte, then free its cell. *)

\* Mutant: the emptiness test compares with a head one too far.
GetCheckPastHead ==
  /\ get_pc = "idle" /\ tail # After(head)
  /\ get_pc' = "load"
  /\ UNCHANGED <<buf, head, tail, put_pc, put_byte, got, accepted, out>>

GetCheck ==
  /\ get_pc = "idle" /\ ~hk_ringbuf_is_empty
  /\ get_pc' = "load"
  /\ UNCHANGED <<buf, head, tail, put_pc, put_byte, got, accepted, out>>

GetLoad ==
  /\ get_pc = "load"
  /\ got' = buf[tail]
  /\ get_pc' = "free"
  /\ UNCHANGED <<buf, head, tail, put_pc, put_byte, accepted, out>>

GetFree ==
  /\ get_pc = "free"
  /\ tail' = After(tail) /\ out' = got
  /\ get_pc' = "idle"
  /\ UNCHANGED <<buf, head, put_pc, put_byte, got, accepted>>

-----------------------------------------------------------------------------
hk_ringbuf_init ==
  /\ buf \in [Cells -> Byte] /\ head = 0 /\ tail = 0
  /\ put_pc = "idle" /\ put_byte \in Byte
  /\ get_pc = "idle" /\ got \in Byte
  /\ accepted = TRUE /\ out \in Byte

RingNext ==
  \/ (\E b \in Byte : PutCheck(b)) \/ PutStore \/ PutPublish
  \/ GetCheck \/ GetLoad \/ GetFree

RingSpec == hk_ringbuf_init /\ [][RingNext]_ring

-----------------------------------------------------------------------------
(* Properties. *)

\* What is queued: the cells from tail up to head, going round.
items == [i \in 1 .. hk_ringbuf_count |-> buf[Wrap(tail + i - 1)]]

Fifo == INSTANCE Fifo WITH Room <- Cap - 1

\* A put or a get on the ring, in the midst of the other side's, acts as one on
\* a queue of Cap - 1 bytes: bytes come out once each, in order and whole, and
\* one is refused only when Cap - 1 are waiting (ringbuf.h:15-17).
ImplementsFifo == Fifo!Spec

TypeOK ==
  /\ buf \in [Cells -> Byte] /\ head \in Cells /\ tail \in Cells
  /\ put_pc \in {"idle", "store", "publish"} /\ put_byte \in Byte
  /\ get_pc \in {"idle", "load", "free"} /\ got \in Byte
  /\ accepted \in BOOLEAN /\ out \in Byte

\* Between its check and its last store neither side can lose what it found:
\* the producer keeps its free cell, the consumer its byte.
HoldsCell ==
  /\ put_pc # "idle" => After(head) # tail
  /\ put_pc = "publish" => buf[head] = put_byte
  /\ get_pc # "idle" => head # tail
  /\ get_pc = "free" => got = buf[tail]
=============================================================================
