------------------------------- MODULE GpsRx -------------------------------
(***************************************************************************)
(* How a sentence of the GPS receiver reaches the shared state.  The UART  *)
(* stores each byte through circular DMA; at the end of the buffer (TC)    *)
(* and when the line falls idle (IDLE) an interrupt hands the new cells to *)
(* the ring (App/bus/uart_dma.c); the GPS task reads the ring in chunks,   *)
(* feeds the NMEA line parser (drivers/gps_ublox) and publishes the fix    *)
(* (task_gps of App/tasks/app.c).                                          *)
(*                                                                         *)
(* One core: the task makes no step while an interrupt waits or runs, but  *)
(* the DMA does.  A byte is its number in the stream, which makes order,   *)
(* loss and repetition visible; what it is follows from its place in its   *)
(* sentence.  The XOR checksum is taken to tell every other line from a    *)
(* whole one.                                                              *)
(***************************************************************************)
EXTENDS RingBuf

CONSTANTS
  Stream,     \* sentences: [type, says (is there a fix: "yes", "no", or "none"
              \* for an empty field), position (has one), first, last byte]
  Already,    \* bytes sent before the DMA was started
  DmaCap,     \* HK_GPS_DMA_BUF
  ChunkSize,  \* sizeof chunk in hk_gps_poll
  LineMax,    \* HK_NMEA_LINE_MAX
  MaxLate     \* bound: character times an interrupt takes after its first

Sentences == DOMAIN Stream

First(s) == Stream[s].first
Last(s)  == Stream[s].last
Total    == Last(Len(Stream))
Dollar   == {First(s) : s \in Sentences}      \* the '$' of each
Eol      == {Last(s) : s \in Sentences}       \* the '\r' of each
Bytes(s) == First(s) .. Last(s)

ASSUME GpsAssumption ==
  /\ Stream \in Seq([type : {"GGA", "RMC", "OTHER"}, says : {"yes", "no", "none"},
                    position : BOOLEAN, first : Nat \ {0}, last : Nat])
  /\ \A s \in Sentences : First(s) < Last(s)
  /\ \A s, t \in Sentences : s < t => Last(s) < First(t)
  /\ \A b \in 1 .. Total : \E s \in Sentences : b \in Bytes(s)
  /\ Total \in Nat /\ Already \in 0 .. Total /\ MaxLate \in Nat
  /\ {DmaCap, ChunkSize, LineMax} \subseteq Nat \ {0, 1}
  /\ Byte = 0 .. Total

VARIABLES
  sent,       \* the last byte on the wire
  rx_on,      \* the reception has not been ended by an error
  quiet,      \* the line has fallen idle since the last byte
  dma,        \* dma_buf
  pending,    \* "TC", "IDLE": interrupts not yet served
  late,       \* character times since the interrupt began
  writes,     \* the interrupt: cells <<from, to>> it has yet to put
  size, last_pos,
  handed,     \* the last byte put or refused
  lost,       \* bytes the ring refused
  task,       \* where task_gps is
  chunk, full,       \* bytes read and not yet fed; the chunk was a full one
  in_sentence, line, \* hk_nmea_t
  fed,        \* the last byte fed to the parser
  parsed,     \* sentences it has accepted
  fix, shared,       \* dev->fix, and s->gps in the system state
  seen, mark  \* handed when this poll, and the last finished one, began

wire   == <<sent, rx_on, quiet, dma>>
isr    == <<writes, size, last_pos>>
parser == <<in_sentence, line, fed, parsed, fix>>
poll   == <<task, chunk, full, seen, mark>>
vars   == <<ring, wire, pending, late, isr, handed, lost, parser, poll, shared>>

Position == (sent - Already) % DmaCap   \* cell the DMA writes next
Served   == pending = {} /\ size = 0

\* Latency: an interrupt has put its first cell within a character time of its
\* event, and ends within MaxLate more; a later one finds cells overwritten.
Passes ==
  IF Served THEN late' = 0
  ELSE /\ pending = {} /\ late < MaxLate
       /\ ~ \E w \in {writes[i] : i \in DOMAIN writes} : w[1] = last_pos
       /\ late' = late + 1

-----------------------------------------------------------------------------
(* The wire and the DMA. *)

\* What is sent once the reception has ended leaves no trace.
SendByte ==
  /\ rx_on /\ sent < Total /\ Passes
  /\ sent' = sent + 1 /\ quiet' = FALSE
  /\ dma' = [dma EXCEPT ![Position] = sent + 1]
  /\ pending' = IF Position = DmaCap - 1 THEN pending \cup {"TC"} ELSE pending
  /\ UNCHANGED <<ring, rx_on, isr, handed, lost, parser, poll, shared>>

IdleLine ==
  /\ rx_on /\ ~quiet /\ Passes
  /\ quiet' = TRUE
  /\ pending' = pending \cup {"IDLE"}
  /\ UNCHANGED <<ring, sent, rx_on, dma, isr, handed, lost, parser, poll, shared>>

\* A framing, noise or overrun error: the HAL ends the reception, and there is
\* no HAL_UART_ErrorCallback that would start it again.
LineError ==
  /\ rx_on
  /\ rx_on' = FALSE
  /\ pending' \in SUBSET pending
  /\ UNCHANGED <<ring, sent, quiet, dma, late, isr, handed, lost, parser, poll,
                 shared>>

-----------------------------------------------------------------------------
(* The interrupt. *)

hk_uart_dma_on_rx_event(pos) ==
  IF pos = last_pos THEN UNCHANGED isr
  ELSE /\ size' = pos
       /\ writes' = IF pos > last_pos THEN <<<<last_pos, pos>>>>
                    ELSE <<<<last_pos, DmaCap>>, <<0, pos>>>>
       /\ UNCHANGED last_pos

\* HAL_UARTEx_RxEventCallback: the position is the one at the time of service;
\* at IDLE the HAL makes no call when the buffer has just started anew.
RxEvent(e) ==
  /\ e \in pending /\ size = 0
  /\ pending' = pending \ {e}
  /\ CASE e = "TC" -> hk_uart_dma_on_rx_event(DmaCap)
       [] e = "IDLE" /\ Position = 0 -> UNCHANGED isr
       [] OTHER -> hk_uart_dma_on_rx_event(Position)
  /\ UNCHANGED <<ring, wire, late, handed, lost, parser, poll, shared>>

from == writes[1][1]
to   == writes[1][2]

\* hk_ringbuf_write, byte by byte; a refused byte ends it.
Ingest ==
  /\ size > 0 /\ writes # << >> /\ from < to
  /\ \/ /\ PutCheck(dma[from])
        /\ IF put_pc' = "store" THEN UNCHANGED <<writes, handed, lost>>
           ELSE /\ lost' = lost \cup {dma[c] : c \in from .. to - 1}
                /\ handed' = dma[to - 1]
                /\ writes' = Tail(writes)
     \/ /\ PutStore
        /\ UNCHANGED <<writes, handed, lost>>
     \/ /\ PutPublish
        /\ handed' = put_byte
        /\ writes' = [writes EXCEPT ![1] = <<from + 1, to>>]
        /\ UNCHANGED lost
  /\ UNCHANGED <<wire, pending, late, size, last_pos, parser, poll, shared>>

NextWrite ==
  /\ writes # << >> /\ from >= to
  /\ writes' = Tail(writes)
  /\ UNCHANGED <<ring, wire, pending, late, size, last_pos, handed, lost,
                 parser, poll, shared>>

\* Mutant: the end of the buffer is left as the last position.
EndEventKeepsEnd ==
  /\ size > 0 /\ writes = << >>
  /\ last_pos' = size
  /\ size' = 0
  /\ UNCHANGED <<ring, wire, pending, late, writes, handed, lost, parser, poll,
                 shared>>

EndEvent ==
  /\ size > 0 /\ writes = << >>
  /\ last_pos' = IF size = DmaCap THEN 0 ELSE size
  /\ size' = 0
  /\ UNCHANGED <<ring, wire, pending, late, writes, handed, lost, parser, poll,
                 shared>>

-----------------------------------------------------------------------------
(* The parser: a line is the bytes kept since the last '$'. *)

Whole(l) == \E s \in Sentences : l = [i \in 1 .. Last(s) - First(s) |-> First(s) + i - 1]
Which(l) == CHOOSE s \in Sentences : First(s) = l[1]

\* Mutant: RMC may not take a fix back.
ParseKeepsValid(s) ==
  LET quality == IF Stream[s].type = "GGA" /\ Stream[s].says # "none"
                 THEN Stream[s].says = "yes" ELSE fix.quality
  IN /\ parsed' = parsed \cup {s}
     /\ fix' = [n |-> s, quality |-> quality,
                position |-> IF Stream[s].position THEN s ELSE fix.position,
                valid |-> \/ Stream[s].type = "GGA" /\ quality
                          \/ Stream[s].type = "RMC" /\ (Stream[s].says = "yes" \/ fix.valid)]

\* hk_nmea_parse_sentence of a sound line.  Field by field, what the sentence
\* lacks keeps the value of an older one: the position, whatever the sentence
\* says of the fix, and the quality, by which a GGA is valid; an RMC is valid
\* or void by its own word.  n stands for the fields every sentence brings.
Parse(s) ==
  LET quality == IF Stream[s].type = "GGA" /\ Stream[s].says # "none"
                 THEN Stream[s].says = "yes" ELSE fix.quality
  IN /\ parsed' = parsed \cup {s}
     /\ fix' = [n |-> s, quality |-> quality,
                position |-> IF Stream[s].position THEN s ELSE fix.position,
                valid |-> IF Stream[s].type = "GGA" THEN quality
                          ELSE Stream[s].says = "yes"]

hk_nmea_parse_sentence(l) ==
  IF Whole(l) /\ Stream[Which(l)].type # "OTHER" THEN Parse(Which(l))
  ELSE UNCHANGED <<parsed, fix>>

\* Mutant: a line that fills the buffer is given up one byte too soon.
FeedShortLine(c) ==
  IF c \in Dollar
  THEN /\ in_sentence' = TRUE /\ line' = <<c>>
       /\ UNCHANGED <<parsed, fix>>
  ELSE IF ~in_sentence
  THEN UNCHANGED <<in_sentence, line, parsed, fix>>
  ELSE IF c \in Eol
  THEN /\ in_sentence' = FALSE /\ line' = << >>
       /\ hk_nmea_parse_sentence(line)
  ELSE /\ IF Len(line) < LineMax - 2
          THEN line' = Append(line, c) /\ UNCHANGED in_sentence
          ELSE line' = << >> /\ in_sentence' = FALSE
       /\ UNCHANGED <<parsed, fix>>

hk_nmea_feed(c) ==
  IF c \in Dollar
  THEN /\ in_sentence' = TRUE /\ line' = <<c>>
       /\ UNCHANGED <<parsed, fix>>
  ELSE IF ~in_sentence
  THEN UNCHANGED <<in_sentence, line, parsed, fix>>
  ELSE IF c \in Eol
  THEN /\ in_sentence' = FALSE /\ line' = << >>
       /\ hk_nmea_parse_sentence(line)
  ELSE /\ IF Len(line) < LineMax - 1
          THEN line' = Append(line, c) /\ UNCHANGED in_sentence
          ELSE line' = << >> /\ in_sentence' = FALSE
       /\ UNCHANGED <<parsed, fix>>

-----------------------------------------------------------------------------
(* The task: hk_gps_poll, then the copy into the shared state. *)

Wake ==
  /\ task = "sleep" /\ Served
  /\ task' = "read" /\ chunk' = << >> /\ full' = FALSE
  /\ seen' = handed
  /\ UNCHANGED <<ring, wire, pending, late, isr, handed, lost, parser, mark,
                 shared>>

\* hk_ringbuf_read: up to a chunk, byte by byte, until the ring is empty.
Read ==
  /\ task = "read" /\ Served
  /\ \/ Len(chunk) < ChunkSize /\ GetCheck /\ UNCHANGED chunk
     \/ GetLoad /\ UNCHANGED chunk
     \/ GetFree /\ chunk' = Append(chunk, got)
  /\ UNCHANGED <<wire, pending, late, isr, handed, lost, parser, task, full,
                 seen, mark, shared>>

\* Mutant: hk_gps_poll reads one chunk only.
ReadOneChunk ==
  /\ task = "read" /\ Served /\ get_pc = "idle"
  /\ Len(chunk) = ChunkSize \/ hk_ringbuf_is_empty
  /\ full' = FALSE
  /\ task' = IF chunk = << >> THEN "publish" ELSE "feed"
  /\ UNCHANGED <<ring, wire, pending, late, isr, handed, lost, parser, chunk,
                 seen, mark, shared>>

ReadEnds ==
  /\ task = "read" /\ Served /\ get_pc = "idle"
  /\ Len(chunk) = ChunkSize \/ hk_ringbuf_is_empty
  /\ full' = (Len(chunk) = ChunkSize)
  /\ task' = IF chunk = << >> THEN "publish" ELSE "feed"
  /\ UNCHANGED <<ring, wire, pending, late, isr, handed, lost, parser, chunk,
                 seen, mark, shared>>

Feed ==
  /\ task = "feed" /\ Served
  /\ hk_nmea_feed(Head(chunk))
  /\ fed' = Head(chunk) /\ chunk' = Tail(chunk)
  /\ task' = IF Len(chunk) > 1 THEN "feed"
             ELSE IF full THEN "read" ELSE "publish"
  /\ UNCHANGED <<ring, wire, pending, late, isr, handed, lost, full, seen,
                 mark, shared>>

Publish ==
  /\ task = "publish" /\ Served
  /\ shared' = fix /\ mark' = seen
  /\ task' = "sleep"
  /\ UNCHANGED <<ring, wire, pending, late, isr, handed, lost, parser, chunk,
                 full, seen>>

-----------------------------------------------------------------------------
NoFix == [n |-> 0, quality |-> FALSE, position |-> 0, valid |-> FALSE]

hk_nmea_init == in_sentence = FALSE /\ line = << >>

Init ==
  /\ buf = [c \in Cells |-> 0] /\ put_byte = 0 /\ got = 0 /\ out = 0
  /\ hk_ringbuf_init
  /\ sent = Already /\ rx_on = TRUE /\ quiet = TRUE
  /\ dma = [c \in 0 .. DmaCap - 1 |-> 0]
  /\ pending = {} /\ late = 0
  /\ writes = << >> /\ size = 0 /\ last_pos = 0
  /\ handed = Already /\ lost = {}
  /\ hk_nmea_init /\ fed = Already /\ parsed = {}
  /\ fix = NoFix /\ shared = NoFix
  /\ task = "sleep" /\ chunk = << >> /\ full = FALSE
  /\ seen = Already /\ mark = Already

Isr  == (\E e \in {"TC", "IDLE"} : RxEvent(e)) \/ Ingest \/ NextWrite \/ EndEvent
Task == Wake \/ Read \/ ReadEnds \/ Feed \/ Publish

Next == SendByte \/ IdleLine \/ LineError \/ Isr \/ Task

Spec == Init /\ [][Next]_vars

\* Interrupts are served, the task is scheduled, and a line that no byte
\* follows on falls idle.
FairSpec == Spec /\ WF_vars(Isr) /\ WF_vars(Task) /\ WF_vars(IdleLine)

-----------------------------------------------------------------------------
(* Properties. *)

\* Bytes handed over by the interrupt and not refused by the ring are parsed
\* once each and in order, over every wrap of the DMA buffer and of the ring
\* (uart_dma.c:34-36 and 42, ringbuf.c:49-70).  Under the latency of Passes the
\* branch of an event that wraps (uart_dma.c:37-41) is not reached.
NoByteAstray ==
  LET queue == chunk \o items IN
  /\ \A i, j \in DOMAIN queue : i < j => queue[i] < queue[j]
  /\ {queue[i] : i \in DOMAIN queue} = (fed + 1 .. handed) \ lost

\* A byte is lost only when as many have come since the last finished poll
\* began as the ring holds: one poll takes all there is, however many chunks.
LossMeansLag == [][\A b \in lost' \ lost : b - mark >= Cap]_vars

\* A sentence that reached the wire whole, and lost none of its bytes, is
\* accepted and published, whatever fragments came before it; unless an error
\* has ended the reception (nmea.c:158-163, uart_dma.c:107).
Reportable(s) == /\ Stream[s].type # "OTHER" /\ Last(s) - First(s) < LineMax
                 /\ First(s) > Already

SentenceReported ==
  []<>(\A s \in {r \in Sentences : Reportable(r) /\ sent >= Last(r)} :
         \/ s \in parsed /\ shared.n >= s
         \/ lost \cap Bytes(s) # {}
         \/ ~rx_on)

\* Sentences handed over whole before the last finished poll began.
Delivered == {s \in Sentences : /\ Reportable(s) /\ Last(s) <= mark
                                /\ lost \cap Bytes(s) = {}}

Says(s)      == Stream[s].says = "yes"
TakesBack(s) == IF Stream[s].type = "GGA" THEN Stream[s].says = "no"
                ELSE Stream[s].says # "yes"
NoQuality(s) == Stream[s].type = "GGA" /\ Stream[s].says = "none"

\* However the bytes came, what is published is no older than what has been
\* delivered: the position is that of the last sentence with one or newer, and
\* a valid fix goes back to a sentence that said there is a fix, has its
\* position, and has not been taken back since; but for one way the code has:
\* a GGA without a quality makes valid again, by the GGA before it, what an
\* RMC had made void (nmea.c:125-128, 144).
NoStaleFix ==
  /\ \A t \in Delivered : shared.n >= t /\ (Stream[t].position => shared.position >= t)
  /\ shared.valid => \E s \in parsed :
       /\ Says(s) /\ s <= shared.n
       /\ Stream[s].position => shared.position >= s
       /\ \A t \in Delivered : s < t /\ TakesBack(t) =>
            /\ Stream[s].type = "GGA" /\ Stream[t].type = "RMC"
            /\ \E g \in parsed : t < g /\ g <= shared.n /\ NoQuality(g)
=============================================================================
