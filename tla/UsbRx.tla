-------------------------------- MODULE UsbRx -------------------------------
(***************************************************************************)
(* The data port's receiver (controller/src/usb_handler): the interrupt    *)
(* handler fills a ring buffer and throttles when it is full; a thread     *)
(* woken by a semaphore drains it into lines and parses them.              *)
(*                                                                         *)
(* The host's bytes are a sequence of "x" (any character of a line) and    *)
(* "n" (its newline), and the buffers hold the bytes' positions in it, so  *)
(* that a byte lost, repeated or out of order shows.  A line parses when   *)
(* it is whole; a fragment of one does not.  Carriage returns, skipped     *)
(* wherever they occur, are left out.  The interrupt may come between any  *)
(* two statements of the thread.                                           *)
(***************************************************************************)
EXTENDS Integers, Sequences

CONSTANTS
  RINGBUF_BYTES, LINE_BUF_BYTES,
  CHUNK_BYTES,    \* the thread reads up to this many bytes at a time
  FIFO_BYTES,     \* and the interrupt handler up to this many
  LowWater,       \* reception resumes when more than this is free
  MaxBytes        \* bound: the bytes the host sends

ASSUME UsbAssumption ==
  /\ RINGBUF_BYTES \in Nat /\ LINE_BUF_BYTES \in Nat \ {0}
  /\ CHUNK_BYTES \in Nat \ {0} /\ FIFO_BYTES \in Nat \ {0}
  /\ LowWater \in Nat /\ LowWater < RINGBUF_BYTES
  /\ MaxBytes \in Nat

VARIABLES
  stream,         \* the bytes the host has sent
  taken,          \* how many of them have left the UART
  rx_ringbuf, chunk, line_buf,
  consumed,       \* how many bytes the thread has dealt with
  rx_sem, rx_throttled,
  irq,            \* is the receive interrupt enabled?
  thread,         \* "wait", "get", "bytes", "check", "resume" or "enable"
  frames_rx,      \* positions of the newlines whose line was parsed
  parse_errors,   \* and of those whose line was not
  line_overruns   \* positions of the bytes at which a line was given up

uart   == <<stream, taken, irq>>
counts == <<frames_rx, parse_errors, line_overruns>>
vars == <<uart, rx_ringbuf, chunk, line_buf, consumed, rx_sem, rx_throttled, thread,
          counts>>

\* FIFO, ring, line buffer and semaphore stay within their capacities (usb_handler.c).
TypeOK ==
  /\ stream \in Seq({"x", "n"}) /\ Len(stream) <= MaxBytes
  /\ taken \in 0 .. Len(stream) /\ consumed \in 0 .. taken
  /\ rx_ringbuf \in Seq(1 .. MaxBytes) /\ Len(rx_ringbuf) <= RINGBUF_BYTES
  /\ chunk \in Seq(1 .. MaxBytes) /\ Len(chunk) <= CHUNK_BYTES
  /\ line_buf \in Seq(1 .. MaxBytes) /\ Len(line_buf) < LINE_BUF_BYTES
  /\ rx_sem \in 0 .. 1 /\ rx_throttled \in BOOLEAN /\ irq \in BOOLEAN
  /\ thread \in {"wait", "get", "bytes", "check", "resume", "enable"}
  /\ frames_rx \subseteq 1 .. MaxBytes /\ parse_errors \subseteq 1 .. MaxBytes
  /\ line_overruns \subseteq 1 .. MaxBytes

\* usb_handler_init has armed the interrupt.
Init ==
  /\ stream = <<>> /\ taken = 0 /\ irq = TRUE
  /\ rx_ringbuf = <<>> /\ chunk = <<>> /\ line_buf = <<>> /\ consumed = 0
  /\ rx_sem = 0 /\ rx_throttled = FALSE
  /\ thread = "wait"
  /\ frames_rx = {} /\ parse_errors = {} /\ line_overruns = {}

-----------------------------------------------------------------------------
Span(m, n) == [i \in 1 .. (n - m) |-> m + i]

Smaller(m, n) == IF m < n THEN m ELSE n

Space == RINGBUF_BYTES - Len(rx_ringbuf)

HostSends(c) ==
  /\ Len(stream) < MaxBytes
  /\ stream' = Append(stream, c)
  /\ UNCHANGED <<taken, irq, rx_ringbuf, chunk, line_buf, consumed, rx_sem,
                 rx_throttled, thread, counts>>

-----------------------------------------------------------------------------
(* interrupt_handler *)

Pending == irq /\ taken < Len(stream) /\ ~rx_throttled

\* The number of bytes the handler asks for.
Want == Smaller(FIFO_BYTES, Space)

\* uart_fifo_read returns some of the bytes asked for; the semaphore's limit is 1.
Interrupt ==
  /\ Pending /\ Want > 0
  /\ \E n \in (taken + 1) .. Smaller(taken + Want, Len(stream)) :
       /\ rx_ringbuf' = rx_ringbuf \o Span(taken, n)
       /\ taken' = n
  /\ rx_sem' = 1
  /\ UNCHANGED <<stream, irq, chunk, line_buf, consumed, rx_throttled, thread, counts>>

\* No room: reception stops until the thread has caught up.
Throttle ==
  /\ Pending /\ Want = 0
  /\ irq' = FALSE /\ rx_throttled' = TRUE
  /\ UNCHANGED <<stream, taken, rx_ringbuf, chunk, line_buf, consumed, rx_sem, thread,
                 counts>>

-----------------------------------------------------------------------------
(* rx_thread_fn *)

Wake ==
  /\ thread = "wait" /\ rx_sem = 1
  /\ rx_sem' = 0 /\ thread' = "get"
  /\ UNCHANGED <<uart, rx_ringbuf, chunk, line_buf, consumed, rx_throttled, counts>>

SlipGet ==
  /\ thread = "get"
  /\ LET n == Smaller(CHUNK_BYTES, Len(rx_ringbuf))
     IN  /\ chunk' = SubSeq(rx_ringbuf, 1, n)
         /\ rx_ringbuf' = SubSeq(rx_ringbuf, n + 1, Len(rx_ringbuf))
         /\ thread' = IF n < CHUNK_BYTES THEN "check" ELSE "bytes"
  /\ UNCHANGED <<uart, line_buf, consumed, rx_sem, rx_throttled, counts>>

\* ring_buf_get: the next chunk, until there is none.
Get ==
  /\ thread = "get"
  /\ LET n == Smaller(CHUNK_BYTES, Len(rx_ringbuf))
     IN  /\ chunk' = SubSeq(rx_ringbuf, 1, n)
         /\ rx_ringbuf' = SubSeq(rx_ringbuf, n + 1, Len(rx_ringbuf))
         /\ thread' = IF n = 0 THEN "check" ELSE "bytes"
  /\ UNCHANGED <<uart, line_buf, consumed, rx_sem, rx_throttled, counts>>

\* The content of the line that ends at position n.
LineEndingAt(n) ==
  LET start == CHOOSE m \in 0 .. (n - 1) :
                 /\ m = 0 \/ stream[m] = "n"
                 /\ \A i \in (m + 1) .. (n - 1) : stream[i] # "n"
  IN  Span(start, n - 1)

SlipNewline(b) ==
  /\ IF line_buf = <<>> THEN UNCHANGED <<frames_rx, parse_errors, line_buf>>
     ELSE IF line_buf = LineEndingAt(b)
     THEN frames_rx' = frames_rx \cup {b} /\ line_buf' = <<>> /\ UNCHANGED parse_errors
     ELSE parse_errors' = parse_errors \cup {b} /\ UNCHANGED <<frames_rx, line_buf>>
  /\ UNCHANGED line_overruns

\* A newline: what has been collected is parsed, unless that is nothing.  A whole line
\* parses; the rest of one that was given up is taken not to.
Newline(b) ==
  /\ IF line_buf = <<>> THEN UNCHANGED <<frames_rx, parse_errors>>
     ELSE IF line_buf = LineEndingAt(b)
     THEN frames_rx' = frames_rx \cup {b} /\ UNCHANGED parse_errors
     ELSE parse_errors' = parse_errors \cup {b} /\ UNCHANGED frames_rx
  /\ line_buf' = <<>>
  /\ UNCHANGED line_overruns

Room == Len(line_buf) < LINE_BUF_BYTES - 1

\* Any other byte; one that does not fit is lost with the line so far.
Collect(b) ==
  /\ IF Room THEN line_buf' = Append(line_buf, b) /\ UNCHANGED line_overruns
     ELSE line_buf' = <<>> /\ line_overruns' = line_overruns \cup {b}
  /\ UNCHANGED <<frames_rx, parse_errors>>

Byte ==
  /\ thread = "bytes"
  /\ LET b == Head(chunk)
     IN  /\ IF stream[b] = "n" THEN Newline(b) ELSE Collect(b)
         /\ consumed' = b
  /\ chunk' = Tail(chunk)
  /\ thread' = IF Len(chunk) = 1 THEN "get" ELSE "bytes"
  /\ UNCHANGED <<uart, rx_ringbuf, rx_sem, rx_throttled>>

SlipCheck ==
  /\ thread = "check"
  /\ thread' = IF rx_throttled /\ Space > LowWater THEN "resume" ELSE "wait"
  /\ rx_sem' = 0
  /\ UNCHANGED <<uart, rx_ringbuf, chunk, line_buf, consumed, rx_throttled, counts>>

\* After the drain: has reception been stopped, and is there room again?
Check ==
  /\ thread = "check"
  /\ thread' = IF rx_throttled /\ Space > LowWater THEN "resume" ELSE "wait"
  /\ UNCHANGED <<uart, rx_ringbuf, chunk, line_buf, consumed, rx_sem, rx_throttled,
                 counts>>

SlipResume ==
  /\ thread = "resume"
  /\ irq' = TRUE
  /\ thread' = "enable"
  /\ UNCHANGED <<stream, taken, rx_ringbuf, chunk, line_buf, consumed, rx_sem,
                 rx_throttled, counts>>

Resume ==
  /\ thread = "resume"
  /\ rx_throttled' = FALSE
  /\ thread' = "enable"
  /\ UNCHANGED <<uart, rx_ringbuf, chunk, line_buf, consumed, rx_sem, counts>>

Enable ==
  /\ thread = "enable"
  /\ irq' = TRUE
  /\ thread' = "wait"
  /\ UNCHANGED <<stream, taken, rx_ringbuf, chunk, line_buf, consumed, rx_sem,
                 rx_throttled, counts>>

-----------------------------------------------------------------------------
Uart == Interrupt \/ Throttle

RxThread == Wake \/ Get \/ Byte \/ Check \/ Resume \/ Enable

Next == (\E c \in {"x", "n"} : HostSends(c)) \/ Uart \/ RxThread

Spec == Init /\ [][Next]_vars

\* Interrupts are served and the thread is scheduled.
FairSpec == Spec /\ WF_vars(Uart) /\ WF_vars(RxThread)

-----------------------------------------------------------------------------
(* Safety *)

\* No byte is lost, repeated or reordered between the UART and the lines: the
\* chunk and the ring hold exactly the bytes taken and not yet dealt with.
BytesInOrder == chunk \o rx_ringbuf = Span(consumed, taken)

\* A thread that waits with bytes in the ring, or with reception stopped, has a
\* wake-up coming: the semaphore's limit of 1 loses none that matters.
NoLostWakeup ==
  thread = "wait" /\ (rx_ringbuf # <<>> \/ rx_throttled) => rx_sem = 1

\* The interrupt is never enabled while rx_throttled is set: interrupt_handler
\* would spin in its loop for ever.
NoInterruptSpin == ~(irq /\ rx_throttled)

\* Every line that fits is parsed, whatever precedes it, and only an overlong one
\* ends in a parse error: giving a line up costs no other line.
LinesArrive ==
  \A n \in 1 .. consumed :
    stream[n] = "n" =>
      /\ Len(LineEndingAt(n)) \in 1 .. (LINE_BUF_BYTES - 1) => n \in frames_rx
      /\ n \in parse_errors => Len(LineEndingAt(n)) >= LINE_BUF_BYTES

-----------------------------------------------------------------------------
(* Liveness, under FairSpec *)

\* Once the host falls silent every byte it sent has been dealt with: throttling
\* never stops reception for good.
AllConsumed == <>[](consumed = Len(stream))
=============================================================================
