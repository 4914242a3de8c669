-------------------------------- MODULE Fifo --------------------------------
(* A bounded queue of bytes between one producer and one consumer: what     *)
(* App/common/ringbuf.h promises.  Each call takes effect at one instant.   *)
EXTENDS Integers, Sequences

CONSTANTS Byte, Room   \* what is queued, and how many of them fit

VARIABLES
  items,      \* the bytes put and not yet got, oldest first
  accepted,   \* what the last put returned
  out         \* the byte the last get returned

fifo == <<items, accepted, out>>

Put(b) ==
  /\ Len(items) < Room
  /\ items' = Append(items, b) /\ accepted' = TRUE
  /\ UNCHANGED out

Refuse ==
  /\ Len(items) = Room
  /\ accepted' = FALSE
  /\ UNCHANGED <<items, out>>

Get ==
  /\ items # << >>
  /\ out' = Head(items) /\ items' = Tail(items)
  /\ UNCHANGED accepted

Init == items = << >> /\ accepted = TRUE /\ out \in Byte

Next == (\E b \in Byte : Put(b)) \/ Refuse \/ Get

Spec == Init /\ [][Next]_fifo
=============================================================================
