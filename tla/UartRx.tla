------------------------------- MODULE UartRx -------------------------------
(***************************************************************************)
(* Reception on a UART port, as the RS485 port uses it: the DMA writes a   *)
(* ring for ever, the interrupts of the DMA (half, full) and of the USART  *)
(* (line idle) publish what it wrote by moving the indices of a kfifo laid *)
(* over the same ring, and one task reads through bsp_rs485_poll.          *)
(*                                                                         *)
(* The interrupts have one priority and never nest, and a task takes no    *)
(* step while one is due, so an interrupt is one action.  But the DMA      *)
(* never waits: an interrupt takes less time than a byte, and one byte may *)
(* arrive during it, between any two of its steps.  Bytes are numbered     *)
(* modulo Span; the indices in and out of the kfifo are byte numbers, and  *)
(* the cell of a byte is its number modulo the size of the ring.           *)
(***************************************************************************)
EXTENDS Integers

CONSTANTS
  RingSize,   (* bytes of the ring; a power of two in the code (1024 for    *)
              (* RS485) for the masks of kfifo, which are remainders here   *)
  Capacity,   (* size of the buffer the caller of the poll brings           *)
  Backlog     (* bound: bytes that come between two interrupts at most; an  *)
              (* interrupt falls due every half ring, and one may be lost   *)

ASSUME UartRxAssumption ==
  /\ RingSize \in Nat \ {0, 1}
  /\ Capacity \in Nat \ {0}
  /\ Backlog \in 1 .. RingSize - 1

VARIABLES
  head,          (* bytes the DMA has written                               *)
  half, full,    (* its two interrupt flags                                 *)
  idle,          (* the USART's idle flag                                   *)
  busy,          (* bytes have come since the line was last found idle      *)
  last_pos,      (* dma_last_pos                                            *)
  in, out,       (* the indices of the kfifo                                *)
  idle_news,     (* rs485_idle_sequence # rs485_idle_handled                *)
  error_news,    (* rs485_error_sequence # rs485_error_handled              *)
  reader,        (* the poll under way: program counter and locals          *)
  lost,          (* history: bytes were discarded, the caller not yet told  *)
  due            (* history: the byte the reader has to be given next       *)

line  == <<head, half, full, idle, busy>>
kfifo == <<in, out>>
news  == <<idle_news, error_news>>
promise == <<lost, due>>
vars    == <<line, last_pos, kfifo, news, reader, promise>>

(* Byte numbers and indices; a multiple of the ring, and wide enough for   *)
(* all the distances that occur.                                           *)
Span    == 2 * RingSize
Numbers == 0 .. Span - 1
Plus(a, n)  == (a + n) % Span
Minus(a, b) == (a - b) % Span

(* No poll; in one, the bytes copied are size bytes from the number from,  *)
(* unless the DMA had lapped them: overrun.                                *)
NoPoll == [pc |-> "REST", mode |-> "TAKE", available |-> 0, from |-> 0, size |-> 0,
           discarded |-> FALSE, failed |-> FALSE, overrun |-> FALSE]

Reading == {"ADVANCE", "CHECK"}

Due == half \/ full \/ idle
-----------------------------------------------------------------------------
(* kfifo_len and kfifo_avail, in unsigned arithmetic: out may be ahead of  *)
(* in for a moment, see ReadAdvance.                                       *)
FifoLen   == Minus(in, out)
FifoAvail == Minus(RingSize, FifoLen)

Smallest(numbers) == CHOOSE n \in numbers : \A m \in numbers : n <= m

(* The position of the DMA in the ring, and the flags it sets on its way.  *)
Pos(number)   == number % RingSize
Halfway(number) == Pos(number) = RingSize \div 2
Around(number)  == Pos(number) = 0
-----------------------------------------------------------------------------
(* A byte arrives and the DMA stores it.                                   *)
ByteArrives ==
  /\ Minus(head, in) < Backlog
  /\ head' = Plus(head, 1)
  /\ busy' = TRUE
  /\ half' = (half \/ Halfway(head'))
  /\ full' = (full \/ Around(head'))
  /\ UNCHANGED <<idle, last_pos, kfifo, news, reader, promise>>

(* The line falls silent after a byte.                                     *)
LineIdle ==
  /\ busy
  /\ busy' = FALSE
  /\ idle' = TRUE
  /\ UNCHANGED <<head, half, full, last_pos, kfifo, news, reader, promise>>
-----------------------------------------------------------------------------
(* The steps of at32f435_uart_rx_sync: the full flag is read (step 1), the *)
(* position of the DMA (2), the flag again (3), when it has changed the    *)
(* position again (4), then the flags are cleared (5), by the handler of   *)
(* the DMA a second time (6).  A byte arrives after the step when, or not  *)
(* at all: after the last.                                                 *)
HeadAt(step, when) == IF when < step THEN Plus(head, 1) ELSE head
FullAt(step, when) == full \/ (when < step /\ Around(HeadAt(step, when)))

(* Instead: the position is not read again.                                *)
SampledPosOnce(when) == Pos(HeadAt(2, when))

SampledFull(when) == FullAt(3, when)
SampledPos(when)  ==
  Pos(HeadAt(IF FullAt(1, when) = FullAt(3, when) THEN 2 ELSE 4, when))

(* Bytes since the last interrupt: the distance around the ring, and a lap *)
(* more when the full flag is set but the position has not fallen behind.  *)
Received(when) ==
  ((SampledPos(when) - last_pos) % RingSize)
    + (IF SampledFull(when) /\ SampledPos(when) >= last_pos THEN RingSize ELSE 0)

(* at32f435_uart_rx_sync: the flags go, whatever has come since they were  *)
(* read, and the bytes are published or, when unread ones were             *)
(* overwritten, discarded with everything unread.                          *)
Overflow(when) == Received(when) > RingSize \/ Received(when) > FifoAvail

Synchronise(when, last) ==
  /\ when > last \/ Minus(head, in) < Backlog
  /\ head' = HeadAt(last + 1, when)
  /\ half' = (when = last /\ Halfway(head') /\ head' # head)
  /\ full' = (when = last /\ Around(head') /\ head' # head)
  /\ busy' = (busy \/ head' # head)
  /\ last_pos' = SampledPos(when)
  /\ in' = Plus(in, Received(when))
  /\ error_news' = (error_news \/ Overflow(when))
  /\ IF Overflow(when)
     THEN /\ out' = in'
          /\ reader' = [reader EXCEPT !.discarded = reader.pc # "REST"]
          /\ lost' = TRUE /\ due' = in'
     ELSE UNCHANGED <<out, reader, promise>>

(* plat_uart_rx_irq_handler.  The ports enable no error interrupt          *)
(* (wk_usart.c), so the idle flag is the only one it ever finds.  It ends  *)
(* in bsp_rs485_rx_callback.                                               *)
UsartIrq ==
  /\ idle
  /\ idle' = FALSE
  /\ \E when \in 1 .. 6 : Synchronise(when, 5)
  /\ idle_news' = TRUE

(* plat_uart_rx_dma_irq_handler.                                           *)
DmaIrq ==
  /\ half \/ full
  /\ \E when \in 1 .. 7 : Synchronise(when, 6)
  /\ UNCHANGED <<idle, idle_news>>
-----------------------------------------------------------------------------
(* bsp_rs485_poll with news; without, it returns at once.                  *)
PollStart ==
  /\ reader.pc = "REST"
  /\ idle_news \/ error_news
  /\ idle_news' = FALSE
  /\ reader' = [reader EXCEPT !.pc = "SIZE"]
  /\ UNCHANGED <<kfifo, error_news, promise>>

PollSize ==
  /\ reader.pc = "SIZE"
  /\ reader' = [reader EXCEPT !.pc = "GATE", !.available = FifoLen]
  /\ UNCHANGED <<kfifo, news, promise>>

(* The caller is told of an error: what it gets next starts at the byte    *)
(* the driver is at.                                                       *)
ReturnError == reader' = NoPoll /\ lost' = FALSE /\ due' = out

(* An error, or more than the caller can take: all that was there is read  *)
(* and thrown away, a buffer at a time, and the poll fails.                *)
PollDrop ==
  /\ reader.pc = "GATE"
  /\ error_news \/ reader.available > Capacity
  /\ error_news' = FALSE
  /\ IF reader.available = 0 THEN ReturnError
     ELSE /\ reader' = [reader EXCEPT !.pc = "CALL", !.mode = "DROP"]
          /\ lost' = TRUE /\ due' = 0
  /\ UNCHANGED <<kfifo, idle_news>>

(* Instead: the idle sequence is taken over only now.                      *)
PollTakeWithNews ==
  /\ reader.pc = "GATE"
  /\ ~error_news
  /\ reader.available <= Capacity
  /\ reader' = IF reader.available = 0 THEN NoPoll
               ELSE [reader EXCEPT !.pc = "CALL", !.mode = "TAKE"]
  /\ idle_news' = FALSE
  /\ UNCHANGED <<kfifo, error_news, promise>>

(* Neither: the read that follows is for the caller.                       *)
PollTake ==
  /\ reader.pc = "GATE"
  /\ ~error_news
  /\ reader.available <= Capacity
  /\ reader' = IF reader.available = 0 THEN NoPoll
               ELSE [reader EXCEPT !.pc = "CALL", !.mode = "TAKE"]
  /\ UNCHANGED <<kfifo, news, promise>>

(* plat_uart_read remembers the overflow generation, and kfifo_get copies  *)
(* the bytes.                                                              *)
ReadCopy ==
  /\ reader.pc = "CALL"
  /\ reader' = [reader EXCEPT
       !.pc = "ADVANCE", !.discarded = FALSE, !.from = out,
       !.size = Smallest({FifoLen, reader.available, Capacity}),
       !.overrun = reader.mode = "TAKE" /\ Minus(head, out) > RingSize]
  /\ UNCHANGED <<kfifo, news, promise>>

(* Then it moves out by their number, with a load and a store: an          *)
(* interrupt that has set out may have done so before the one or the other.*)
ReadAdvance ==
  /\ reader.pc = "ADVANCE"
  /\ \E loaded \in {out, reader.from} : out' = Plus(loaded, reader.size)
  /\ reader' = [reader EXCEPT !.pc = "CHECK"]
  /\ UNCHANGED <<in, news, promise>>

(* A generation that has changed makes the read fail and empties the FIFO. *)
ReadCheck ==
  /\ reader.pc = "CHECK"
  /\ out' = IF reader.discarded THEN in ELSE out
  /\ reader' = IF reader.discarded
               THEN [NoPoll EXCEPT !.pc = "DONE", !.mode = reader.mode, !.failed = TRUE]
               ELSE [reader EXCEPT !.pc = "DONE"]
  /\ UNCHANGED <<in, news, promise>>

(* Back in the poll, which was dropping: a failed or empty read ends it.   *)
PollDropped ==
  /\ reader.pc = "DONE"
  /\ reader.mode = "DROP"
  /\ LET left == reader.available - reader.size
     IN  IF reader.failed \/ reader.size = 0 \/ left = 0 THEN ReturnError
         ELSE /\ reader' = [reader EXCEPT !.pc = "CALL", !.available = left, !.size = 0, !.from = 0]
              /\ UNCHANGED promise
  /\ UNCHANGED <<kfifo, news>>

(* Back in the poll, which was taking: an error since then spoils it all.  *)
PollSpoilt ==
  /\ reader.pc = "DONE"
  /\ reader.mode = "TAKE"
  /\ error_news \/ reader.failed
  /\ error_news' = FALSE
  /\ ReturnError
  /\ UNCHANGED <<kfifo, idle_news>>

(* Instead: the errors are not looked at again after the read.             *)
PollDeliversUnchecked ==
  /\ reader.pc = "DONE"
  /\ reader.mode = "TAKE"
  /\ ~reader.failed
  /\ reader' = NoPoll
  /\ due' = Plus(due, reader.size)
  /\ UNCHANGED <<kfifo, news, lost>>

(* The bytes are handed to the caller.                                     *)
PollDelivers ==
  /\ reader.pc = "DONE"
  /\ reader.mode = "TAKE"
  /\ ~error_news /\ ~reader.failed
  /\ reader' = NoPoll
  /\ due' = Plus(due, reader.size)
  /\ UNCHANGED <<kfifo, news, lost>>

Task ==
  /\ ~Due
  /\ \/ PollStart \/ PollSize \/ PollDrop \/ PollTake
     \/ ReadCopy \/ ReadAdvance \/ ReadCheck
     \/ PollDropped \/ PollSpoilt \/ PollDelivers
  /\ UNCHANGED <<line, last_pos>>
-----------------------------------------------------------------------------
(* bsp_rs485_init and plat_uart_receive_start.                             *)
Init ==
  /\ head = 0
  /\ half = FALSE /\ full = FALSE /\ idle = FALSE /\ busy = FALSE
  /\ last_pos = 0
  /\ in = 0 /\ out = 0
  /\ idle_news = FALSE /\ error_news = FALSE
  /\ reader = NoPoll
  /\ lost = FALSE /\ due = 0

Next == ByteArrives \/ LineIdle \/ UsartIrq \/ DmaIrq \/ Task

Spec == Init /\ [][Next]_vars
-----------------------------------------------------------------------------
Readers == [pc : {"REST", "SIZE", "GATE", "CALL", "ADVANCE", "CHECK", "DONE"},
            mode : {"TAKE", "DROP"}, available : Numbers, from : Numbers, size : 0 .. Capacity,
            discarded : BOOLEAN, failed : BOOLEAN, overrun : BOOLEAN]

TypeOK ==
  /\ {head, in, out, due} \subseteq Numbers
  /\ {half, full, idle, busy, idle_news, error_news, lost} \subseteq BOOLEAN
  /\ last_pos \in 0 .. RingSize - 1
  /\ reader \in Readers

(* No false alarm: bytes are discarded only when the DMA has overwritten    *)
(* one that nobody had read, however its interrupts, its flags and the     *)
(* task's own update of out fall (at32f435_uart.c:167-205).  A read that   *)
(* an interrupt has already failed does not count.                         *)
NoFalseAlarm ==
  [][ error_news' /\ ~error_news /\ ~lost => Minus(head', out) > RingSize ]_vars

(* No byte is delivered twice, out of order or after a gap: what the poll  *)
(* returns follows on what it returned before, and after a discard it has  *)
(* failed first (project.md:101).  The exception is a ring that the DMA    *)
(* had lapped, noticed by no interrupt at the time of the copy.            *)
DeliversInOrder ==
  [][ PollDelivers /\ ~Due /\ ~reader.overrun => ~lost /\ reader.from = due ]_vars

(* No byte is forgotten: when the line is idle, every interrupt served and *)
(* the poll has nothing to do, everything received has been read or        *)
(* reported as lost (bsp_rs485.c:84-89 acts on news alone).                *)
NothingForgotten ==
  ~Due /\ ~busy /\ reader.pc = "REST" /\ ~idle_news /\ ~error_news =>
    in = head /\ out = in /\ ~lost
=============================================================================
