---------------------------- MODULE UsbRx_proofs ----------------------------
(***************************************************************************)
(* Proofs about the data port's receiver, for every size of its buffers    *)
(* and of the reads, and for everything the host may send.                 *)
(*                                                                         *)
(* None of the safety properties is inductive.  Order says where each byte *)
(* of the chunk and of the ring stands in the stream; Waking and Throttled *)
(* follow the thread through the statements between its last look at the   *)
(* ring and its wait; Collected says which part of its line the line       *)
(* buffer holds, and Parsed what has become of the lines before.           *)
(***************************************************************************)
EXTENDS UsbRx, SequenceTheorems, TLAPS

\* The chunk continues at `consumed`, the ring where the chunk ends.
Order ==
  /\ Len(chunk) + Len(rx_ringbuf) = taken - consumed
  /\ \A i \in 1 .. Len(chunk) : chunk[i] = consumed + i
  /\ \A i \in 1 .. Len(rx_ringbuf) : rx_ringbuf[i] = consumed + Len(chunk) + i
  /\ thread = "bytes" <=> Len(chunk) > 0

\* After the last Get of a drain, a byte put into the ring raises the semaphore.
Waking ==
  /\ thread \in {"wait", "check", "resume", "enable"} /\ Len(rx_ringbuf) > 0 => rx_sem = 1
  /\ thread = "wait" /\ rx_throttled => rx_sem = 1

\* Reception is stopped and started again in an order that no interrupt disturbs.
Throttled ==
  /\ rx_throttled => ~irq
  /\ thread = "resume" => rx_throttled
  /\ thread = "enable" => ~rx_throttled /\ ~irq

\* The line that byte n belongs to begins after position s.
LineStart(st, s, n) ==
  /\ s = 0 \/ st[s] = "n"
  /\ \A i \in (s + 1) .. (n - 1) : st[i] # "n"

\* The line buffer holds the line so far, or what follows at least LINE_BUF_BYTES bytes of
\* it that were given up.
Collected ==
  /\ \A i \in 1 .. Len(line_buf) : line_buf[i] = consumed - Len(line_buf) + i
  /\ \E s \in 0 .. (consumed - Len(line_buf)) :
       /\ LineStart(stream, s, consumed + 1)
       /\ \/ s = consumed - Len(line_buf)
          \/ consumed - Len(line_buf) - s >= LINE_BUF_BYTES

\* The line that ends at n, of k bytes, has met its fate.
Fate(parsed, failed, n, k) ==
  /\ k \in 1 .. (LINE_BUF_BYTES - 1) => n \in parsed
  /\ n \in failed => k >= LINE_BUF_BYTES

Parsed ==
  /\ parse_errors \subseteq 1 .. consumed
  /\ \A n \in 1 .. consumed :
       stream[n] = "n" =>
         \E s \in 0 .. (n - 1) :
           LineStart(stream, s, n) /\ Fate(frames_rx, parse_errors, n, n - 1 - s)

RxInv == TypeOK /\ Order /\ Waking /\ Throttled /\ Collected /\ Parsed

-----------------------------------------------------------------------------
LEMMA SpanFacts ==
  ASSUME NEW m \in Nat, NEW n \in Nat, m <= n
  PROVE  /\ Span(m, n) \in Seq(Nat) /\ Len(Span(m, n)) = n - m
         /\ \A i \in 1 .. (n - m) : Span(m, n)[i] = m + i /\ m + i \in (m + 1) .. n
  BY DEF Span

LEMMA SpanTyped ==
  ASSUME NEW m \in Nat, NEW n \in Nat, m <= n, n <= MaxBytes
  PROVE  Span(m, n) \in Seq(1 .. MaxBytes)
  BY UsbAssumption DEF Span

\* The beginning of a line is unique, so LineEndingAt picks it.
LEMMA LineIs ==
  ASSUME NEW n \in Nat \ {0}, NEW s \in 0 .. (n - 1), LineStart(stream, s, n)
  PROVE  LineEndingAt(n) = Span(s, n - 1)
<1> DEFINE P(m) == /\ m = 0 \/ stream[m] = "n"
                   /\ \A i \in (m + 1) .. (n - 1) : stream[i] # "n"
           c == CHOOSE m \in 0 .. (n - 1) : P(m)
<1>1. P(s)
  BY DEF LineStart
<1>2. c \in 0 .. (n - 1) /\ P(c)
  BY <1>1
<1>3. c = s
  <2>1. ~(c < s) /\ ~(s < c)
    BY <1>1, <1>2
  <2>2. QED
    BY <1>2, <2>1
<1>4. LineEndingAt(n) = Span(c, n - 1)
  BY DEF LineEndingAt
<1>5. QED
  BY <1>3, <1>4

LEMMA InitRxInv == Init => RxInv
<1> SUFFICES ASSUME Init PROVE RxInv
  OBVIOUS
<1> USE DEF Init
<1>1. /\ Len(<<>>) = 0 /\ <<>> \in Seq({"x", "n"}) /\ <<>> \in Seq(1 .. MaxBytes)
  OBVIOUS
<1>2. TypeOK
  <2>1. /\ Len(stream) <= MaxBytes /\ taken \in 0 .. Len(stream) /\ consumed \in 0 .. taken
        /\ Len(rx_ringbuf) <= RINGBUF_BYTES /\ Len(chunk) <= CHUNK_BYTES
        /\ Len(line_buf) < LINE_BUF_BYTES /\ rx_sem \in 0 .. 1
    BY UsbAssumption
  <2>2. QED
    BY <1>1, <2>1 DEF TypeOK
<1>3. Order /\ Waking /\ Throttled
  BY DEF Order, Waking, Throttled
<1>4. Collected
  <2>1. LineStart(stream, 0, 1)
    BY DEF LineStart
  <2>2. QED
    BY <2>1 DEF Collected
<1>5. Parsed
  BY DEF Parsed
<1>6. QED
  BY <1>2, <1>3, <1>4, <1>5 DEF RxInv

-----------------------------------------------------------------------------
(* The interrupt handler and the thread's own statements leave the lines alone *)

LEMMA LinesUntouched ==
  ASSUME RxInv, UNCHANGED <<stream, line_buf, consumed, counts>> PROVE Collected' /\ Parsed'
  BY DEF RxInv, Collected, Parsed, Fate, LineStart, counts

LEMMA HostSendsKeeps == ASSUME RxInv, NEW c \in {"x", "n"}, HostSends(c) PROVE RxInv'
<1> USE DEF HostSends, counts
<1>1. /\ stream' \in Seq({"x", "n"}) /\ Len(stream') = Len(stream) + 1
      /\ \A i \in 1 .. Len(stream) : stream'[i] = stream[i]
  BY DEF RxInv, TypeOK
<1>2. Len(stream') <= MaxBytes /\ taken' \in 0 .. Len(stream') /\ consumed \in 0 .. Len(stream)
  BY <1>1, UsbAssumption DEF RxInv, TypeOK
<1>3. TypeOK'
  BY <1>1, <1>2 DEF RxInv, TypeOK
<1>4. Order' /\ Waking' /\ Throttled'
  BY DEF RxInv, Order, Waking, Throttled
<1>5. ASSUME NEW n \in 1 .. (consumed + 1), NEW s \in 0 .. (n - 1), LineStart(stream, s, n)
      PROVE  LineStart(stream', s, n)
  BY <1>1, <1>2, <1>5 DEF LineStart
<1>6. Collected'
  <2>1. PICK s \in 0 .. (consumed - Len(line_buf)) :
          /\ LineStart(stream, s, consumed + 1)
          /\ s = consumed - Len(line_buf) \/ consumed - Len(line_buf) - s >= LINE_BUF_BYTES
    BY DEF RxInv, Collected
  <2>2. Len(line_buf) \in Nat
    BY DEF RxInv, TypeOK
  <2>3. LineStart(stream', s, consumed + 1)
    BY <1>2, <1>5, <2>1, <2>2
  <2>4. QED
    BY <2>1, <2>3 DEF RxInv, Collected
<1>7. Parsed'
  <2>1. \A n \in 1 .. consumed : stream'[n] = stream[n]
    BY <1>1, <1>2
  <2>2. ASSUME NEW n \in 1 .. consumed, stream[n] = "n"
        PROVE  \E s \in 0 .. (n - 1) :
                 LineStart(stream', s, n) /\ Fate(frames_rx, parse_errors, n, n - 1 - s)
    <3>1. PICK s \in 0 .. (n - 1) :
                 LineStart(stream, s, n) /\ Fate(frames_rx, parse_errors, n, n - 1 - s)
      BY <2>2 DEF RxInv, Parsed
    <3>2. n \in 1 .. (consumed + 1)
      BY <1>2
    <3>3. QED
      BY <1>5, <3>1, <3>2
  <2>3. QED
    BY <2>1, <2>2 DEF RxInv, Parsed, Fate
<1>8. QED
  BY <1>3, <1>4, <1>6, <1>7 DEF RxInv

LEMMA InterruptKeeps == ASSUME RxInv, Interrupt PROVE RxInv'
<1> USE DEF counts
<1>1. /\ taken \in Nat /\ Len(stream) \in Nat /\ consumed \in 0 .. taken
      /\ Len(rx_ringbuf) \in 0 .. RINGBUF_BYTES /\ Len(chunk) \in Nat
      /\ Len(stream) <= MaxBytes /\ RINGBUF_BYTES \in Nat /\ FIFO_BYTES \in Nat
  BY UsbAssumption DEF RxInv, TypeOK
<1>2. Want \in Nat /\ Want <= RINGBUF_BYTES - Len(rx_ringbuf)
  BY <1>1 DEF Want, Space, Smaller
<1>3. PICK n \in (taken + 1) .. Smaller(taken + Want, Len(stream)) :
        rx_ringbuf' = rx_ringbuf \o Span(taken, n) /\ taken' = n
  BY DEF Interrupt
<1>4. n \in Nat /\ taken < n /\ n <= taken + Want /\ n <= Len(stream) /\ n <= MaxBytes
  <2>1. Smaller(taken + Want, Len(stream)) \in Nat
        /\ Smaller(taken + Want, Len(stream)) <= taken + Want
        /\ Smaller(taken + Want, Len(stream)) <= Len(stream)
    BY <1>1, <1>2 DEF Smaller
  <2>2. QED
    BY <1>1, <1>2, <2>1, UsbAssumption
<1>5. /\ Span(taken, n) \in Seq(1 .. MaxBytes) /\ Len(Span(taken, n)) = n - taken
      /\ \A i \in 1 .. (n - taken) : Span(taken, n)[i] = taken + i
  <2>1. Span(taken, n) \in Seq(1 .. MaxBytes)
    BY <1>1, <1>4, SpanTyped
  <2>2. QED
    BY <1>1, <1>4, <2>1 DEF Span
<1>6. /\ rx_ringbuf' \in Seq(1 .. MaxBytes)
      /\ Len(rx_ringbuf') = Len(rx_ringbuf) + (n - taken)
      /\ \A i \in 1 .. (Len(rx_ringbuf) + (n - taken)) :
           rx_ringbuf'[i] = IF i <= Len(rx_ringbuf) THEN rx_ringbuf[i]
                            ELSE taken + (i - Len(rx_ringbuf))
  <2>1. rx_ringbuf \in Seq(1 .. MaxBytes)
    BY DEF RxInv, TypeOK
  <2>2. /\ rx_ringbuf' \in Seq(1 .. MaxBytes)
        /\ Len(rx_ringbuf') = Len(rx_ringbuf) + (n - taken)
        /\ \A i \in 1 .. (Len(rx_ringbuf) + (n - taken)) :
             rx_ringbuf'[i] = IF i <= Len(rx_ringbuf) THEN rx_ringbuf[i]
                              ELSE Span(taken, n)[i - Len(rx_ringbuf)]
    BY <1>3, <1>5, <2>1, ConcatProperties
  <2>3. QED
    BY <1>1, <1>4, <1>5, <2>2
<1>7. /\ UNCHANGED <<stream, irq, chunk, line_buf, consumed, rx_throttled, thread, counts>>
      /\ rx_sem' = 1
  BY DEF Interrupt
<1>8. TypeOK'
  <2>1. /\ taken' \in 0 .. Len(stream') /\ consumed' \in 0 .. taken' /\ rx_sem' \in 0 .. 1
        /\ Len(rx_ringbuf') <= RINGBUF_BYTES
    BY <1>1, <1>2, <1>3, <1>4, <1>6, <1>7
  <2>2. QED
    BY <1>6, <1>7, <2>1 DEF RxInv, TypeOK
<1>9. Order'
  <2>1. Len(chunk) + Len(rx_ringbuf) = taken - consumed
    BY DEF RxInv, Order
  <2>2. \A i \in 1 .. Len(rx_ringbuf') : rx_ringbuf'[i] = consumed' + Len(chunk') + i
    <3> SUFFICES ASSUME NEW i \in 1 .. Len(rx_ringbuf')
                 PROVE  rx_ringbuf'[i] = consumed' + Len(chunk') + i
      OBVIOUS
    <3>1. i \in 1 .. (Len(rx_ringbuf) + (n - taken))
      BY <1>6
    <3>2. CASE i <= Len(rx_ringbuf)
      BY <1>1, <1>4, <1>6, <1>7, <3>1, <3>2 DEF RxInv, Order
    <3>3. CASE ~(i <= Len(rx_ringbuf))
      <4>1. rx_ringbuf'[i] = taken + (i - Len(rx_ringbuf))
        BY <1>6, <3>1, <3>3
      <4>2. i \in Nat /\ consumed' = consumed /\ chunk' = chunk
        BY <1>1, <1>4, <1>7, <3>1
      <4>3. QED
        BY <1>1, <2>1, <4>1, <4>2
    <3>4. QED
      BY <3>2, <3>3
  <2>3. Len(chunk') + Len(rx_ringbuf') = taken' - consumed'
    <3>1. Len(rx_ringbuf') = Len(rx_ringbuf) + (n - taken)
      BY <1>6
    <3>2. taken' = n /\ consumed' = consumed /\ chunk' = chunk
      BY <1>3, <1>7
    <3>3. QED
      BY <1>1, <1>4, <2>1, <3>1, <3>2
  <2>4. QED
    BY <1>7, <2>2, <2>3 DEF RxInv, Order
<1>10. Waking' /\ Throttled'
  BY <1>7 DEF RxInv, Waking, Throttled
<1>11. QED
  BY <1>7, <1>8, <1>9, <1>10, LinesUntouched DEF RxInv

LEMMA ThrottleKeeps == ASSUME RxInv, Throttle PROVE RxInv'
<1> USE DEF Throttle, counts
<1>1. TypeOK' /\ Order'
  BY DEF RxInv, TypeOK, Order
<1>2. Len(rx_ringbuf) > 0
  BY UsbAssumption DEF Want, Space, Smaller, RxInv, TypeOK
<1>3. Waking'
  BY <1>2 DEF RxInv, Waking
<1>4. Throttled'
  BY DEF RxInv, Throttled, Pending
<1>5. QED
  BY <1>1, <1>3, <1>4, LinesUntouched DEF RxInv

LEMMA WakeKeeps == ASSUME RxInv, Wake PROVE RxInv'
<1> USE DEF Wake, counts, uart
<1>1. TypeOK'
  BY DEF RxInv, TypeOK
<1>2. Order' /\ Waking' /\ Throttled'
  BY DEF RxInv, Order, Waking, Throttled
<1>3. QED
  BY <1>1, <1>2, LinesUntouched DEF RxInv

LEMMA GetKeeps == ASSUME RxInv, Get PROVE RxInv'
<1> USE DEF counts, uart
<1> DEFINE n == Smaller(CHUNK_BYTES, Len(rx_ringbuf))
<1>1. /\ chunk' = SubSeq(rx_ringbuf, 1, n)
      /\ rx_ringbuf' = SubSeq(rx_ringbuf, n + 1, Len(rx_ringbuf))
      /\ thread' = IF n = 0 THEN "check" ELSE "bytes"
      /\ thread = "get" /\ UNCHANGED <<uart, line_buf, consumed, rx_sem, rx_throttled, counts>>
  BY DEF Get
<1>2. /\ n \in Nat /\ n <= CHUNK_BYTES /\ n <= Len(rx_ringbuf) /\ Len(rx_ringbuf) \in Nat
      /\ n = 0 => Len(rx_ringbuf) = 0
  <2>1. Len(rx_ringbuf) \in Nat /\ CHUNK_BYTES \in Nat \ {0}
    BY UsbAssumption DEF RxInv, TypeOK
  <2>2. QED
    BY <2>1 DEF Smaller
<1> HIDE DEF n
<1>3. rx_ringbuf \in Seq(1 .. MaxBytes)
      /\ \A i \in 1 .. Len(rx_ringbuf) : rx_ringbuf[i] \in 1 .. MaxBytes
  <2>1. rx_ringbuf \in Seq(1 .. MaxBytes)
    BY DEF RxInv, TypeOK
  <2>2. QED
    BY <2>1, ElementOfSeq
<1>4. /\ chunk' \in Seq(1 .. MaxBytes) /\ Len(chunk') = n
      /\ \A i \in 1 .. n : chunk'[i] = rx_ringbuf[i]
  BY <1>1, <1>2, <1>3, SubSeqProperties
<1>5. /\ rx_ringbuf' \in Seq(1 .. MaxBytes) /\ Len(rx_ringbuf') = Len(rx_ringbuf) - n
      /\ \A i \in 1 .. (Len(rx_ringbuf) - n) : rx_ringbuf'[i] = rx_ringbuf[n + i]
  BY <1>1, <1>2, <1>3, SubSeqProperties
<1>6. TypeOK'
  <2>1. Len(rx_ringbuf') <= RINGBUF_BYTES /\ Len(chunk') <= CHUNK_BYTES
    BY <1>2, <1>4, <1>5, UsbAssumption DEF RxInv, TypeOK
  <2>2. QED
    BY <1>1, <1>4, <1>5, <2>1 DEF RxInv, TypeOK
<1>7. Order'
  <2>1. Len(chunk) = 0 /\ consumed \in Nat /\ taken \in Nat
    BY <1>1 DEF RxInv, Order, TypeOK
  <2>2. /\ Len(rx_ringbuf) = taken - consumed
        /\ \A i \in 1 .. Len(rx_ringbuf) : rx_ringbuf[i] = consumed + i
    BY <1>2, <2>1 DEF RxInv, Order
  <2>3. thread' = "bytes" <=> Len(chunk') > 0
    BY <1>1, <1>2, <1>4
  <2>4. Len(chunk') + Len(rx_ringbuf') = taken' - consumed'
    BY <1>1, <1>2, <1>4, <1>5, <2>1, <2>2
  <2>5. \A i \in 1 .. Len(chunk') : chunk'[i] = consumed' + i
    BY <1>1, <1>2, <1>4, <2>2
  <2>6. \A i \in 1 .. Len(rx_ringbuf') : rx_ringbuf'[i] = consumed' + Len(chunk') + i
    BY <1>1, <1>2, <1>4, <1>5, <2>1, <2>2
  <2>7. QED
    BY <2>3, <2>4, <2>5, <2>6 DEF Order
<1>8. Waking' /\ Throttled'
  BY <1>1, <1>2, <1>5 DEF RxInv, Waking, Throttled
<1>9. QED
  BY <1>1, <1>6, <1>7, <1>8, LinesUntouched DEF RxInv

LEMMA CheckKeeps == ASSUME RxInv, Check PROVE RxInv'
<1> USE DEF Check, counts, uart
<1>1. TypeOK' /\ Order'
  BY DEF RxInv, TypeOK, Order
<1>2. rx_throttled /\ ~(Space > LowWater) => Len(rx_ringbuf) > 0
  BY UsbAssumption DEF Space, RxInv, TypeOK
<1>3. Waking' /\ Throttled'
  BY <1>2 DEF RxInv, Waking, Throttled
<1>4. QED
  BY <1>1, <1>3, LinesUntouched DEF RxInv

LEMMA ResumeKeeps == ASSUME RxInv, Resume \/ Enable PROVE RxInv'
<1> USE DEF counts, uart
<1>1. CASE Resume
  <2>1. TypeOK' /\ Order' /\ Waking' /\ Throttled'
    BY <1>1 DEF Resume, RxInv, TypeOK, Order, Waking, Throttled
  <2>2. QED
    BY <1>1, <2>1, LinesUntouched DEF Resume, RxInv
<1>2. CASE Enable
  <2>1. TypeOK' /\ Order' /\ Waking' /\ Throttled'
    BY <1>2 DEF Enable, RxInv, TypeOK, Order, Waking, Throttled
  <2>2. QED
    BY <1>2, <2>1, LinesUntouched DEF Enable, RxInv
<1>3. QED
  BY <1>1, <1>2

-----------------------------------------------------------------------------
(* The byte the thread deals with *)

\* It is the next one of the stream, and the chunk continues behind it.
LEMMA NextByte ==
  ASSUME RxInv, Byte
  PROVE  /\ Head(chunk) = consumed + 1 /\ consumed' = consumed + 1
         /\ consumed \in Nat /\ consumed + 1 <= taken /\ taken <= MaxBytes
         /\ consumed + 1 \in 1 .. MaxBytes
         /\ Order' /\ chunk' \in Seq(1 .. MaxBytes) /\ Len(chunk') <= CHUNK_BYTES
<1>1. /\ chunk \in Seq(1 .. MaxBytes) /\ rx_ringbuf \in Seq(1 .. MaxBytes)
      /\ Len(chunk) \in Nat /\ Len(rx_ringbuf) \in Nat /\ Len(chunk) <= CHUNK_BYTES
      /\ consumed \in Nat /\ taken \in Nat /\ taken <= MaxBytes /\ CHUNK_BYTES \in Nat
  BY UsbAssumption DEF RxInv, TypeOK
<1>2. /\ Len(chunk) > 0 /\ Len(chunk) + Len(rx_ringbuf) = taken - consumed
      /\ \A i \in 1 .. Len(chunk) : chunk[i] = consumed + i
      /\ \A i \in 1 .. Len(rx_ringbuf) : rx_ringbuf[i] = consumed + Len(chunk) + i
  BY DEF RxInv, Order, Byte
<1>3. chunk # <<>> /\ Head(chunk) = consumed + 1
  BY <1>1, <1>2
<1>4. /\ Tail(chunk) \in Seq(1 .. MaxBytes) /\ Len(Tail(chunk)) = Len(chunk) - 1
      /\ \A i \in 1 .. (Len(chunk) - 1) : Tail(chunk)[i] = chunk[i + 1]
  BY <1>1, <1>3, HeadTailProperties
<1>5. /\ chunk' = Tail(chunk) /\ consumed' = Head(chunk)
      /\ thread' = (IF Len(chunk) = 1 THEN "get" ELSE "bytes")
      /\ UNCHANGED <<taken, rx_ringbuf>>
  BY DEF Byte, uart
<1>6. consumed + 1 <= taken /\ consumed + 1 \in 1 .. MaxBytes /\ Len(chunk') <= CHUNK_BYTES
  BY <1>1, <1>2, <1>4, <1>5, UsbAssumption
<1>7. Order'
  <2>1. Len(chunk') + Len(rx_ringbuf') = taken' - consumed'
    BY <1>1, <1>2, <1>3, <1>4, <1>5
  <2>2. \A i \in 1 .. Len(chunk') : chunk'[i] = consumed' + i
    BY <1>1, <1>2, <1>3, <1>4, <1>5
  <2>3. \A i \in 1 .. Len(rx_ringbuf') : rx_ringbuf'[i] = consumed' + Len(chunk') + i
    BY <1>1, <1>2, <1>3, <1>4, <1>5
  <2>4. thread' = "bytes" <=> Len(chunk') > 0
    BY <1>1, <1>2, <1>4, <1>5
  <2>5. QED
    BY <2>1, <2>2, <2>3, <2>4 DEF Order
<1>8. QED
  BY <1>1, <1>3, <1>4, <1>5, <1>6, <1>7

\* The start of the line at hand, and the length of what the buffer holds of it.
LEMMA LineAtHand ==
  ASSUME RxInv
  PROVE  /\ line_buf \in Seq(1 .. MaxBytes) /\ Len(line_buf) \in Nat
         /\ Len(line_buf) < LINE_BUF_BYTES /\ LINE_BUF_BYTES \in Nat /\ consumed \in Nat
         /\ \A i \in 1 .. Len(line_buf) : line_buf[i] = consumed - Len(line_buf) + i
         /\ \E s \in Nat :
              /\ s <= consumed - Len(line_buf)
              /\ LineStart(stream, s, consumed + 1)
              /\ \/ s = consumed - Len(line_buf)
                 \/ consumed - Len(line_buf) - s >= LINE_BUF_BYTES
<1>1. /\ line_buf \in Seq(1 .. MaxBytes) /\ Len(line_buf) \in Nat /\ consumed \in Nat
      /\ Len(line_buf) < LINE_BUF_BYTES /\ LINE_BUF_BYTES \in Nat
  BY UsbAssumption DEF RxInv, TypeOK
<1>2. QED
  BY <1>1 DEF RxInv, Collected

LEMMA CollectKeeps ==
  ASSUME RxInv, Byte, stream[consumed + 1] # "n", Collect(consumed + 1),
         UNCHANGED stream, consumed' = consumed + 1
  PROVE  /\ Collected' /\ Parsed'
         /\ line_buf' \in Seq(1 .. MaxBytes) /\ Len(line_buf') < LINE_BUF_BYTES
<1> DEFINE b == consumed + 1
<1>1. PICK s \in Nat :
        /\ s <= consumed - Len(line_buf)
        /\ LineStart(stream, s, b)
        /\ s = consumed - Len(line_buf) \/ consumed - Len(line_buf) - s >= LINE_BUF_BYTES
  BY LineAtHand
<1>2. LineStart(stream, s, b + 1)
  BY <1>1, LineAtHand DEF LineStart
<1>3. Parsed'
  <2>1. UNCHANGED <<frames_rx, parse_errors>>
    BY DEF Collect
  <2>2. parse_errors \subseteq 1 .. consumed
    BY DEF RxInv, Parsed
  <2>3. parse_errors' \subseteq 1 .. consumed'
    BY <2>1, <2>2, LineAtHand
  <2>4. \A n \in 1 .. consumed' : stream'[n] = "n" => n \in 1 .. consumed
    BY LineAtHand
  <2>5. QED
    BY <2>1, <2>3, <2>4 DEF RxInv, Parsed, Fate
<1>4. CASE Room
  <2>1. line_buf' = Append(line_buf, b)
    BY <1>4 DEF Collect
  <2>2. /\ line_buf' \in Seq(1 .. MaxBytes) /\ Len(line_buf') = Len(line_buf) + 1
        /\ \A i \in 1 .. (Len(line_buf) + 1) :
             line_buf'[i] = IF i <= Len(line_buf) THEN line_buf[i] ELSE b
    <3>1. b \in 1 .. MaxBytes /\ line_buf \in Seq(1 .. MaxBytes)
      BY NextByte, LineAtHand
    <3>2. QED
      BY <2>1, <3>1
  <2>3. Len(line_buf') < LINE_BUF_BYTES
    BY <1>4, <2>2, LineAtHand DEF Room
  <2>4. \A i \in 1 .. Len(line_buf') : line_buf'[i] = consumed' - Len(line_buf') + i
    BY <2>2, LineAtHand
  <2>5. consumed' - Len(line_buf') = consumed - Len(line_buf)
    BY <2>2, LineAtHand
  <2>6. Collected'
    <3>1. LineStart(stream', s, consumed' + 1) /\ s \in 0 .. (consumed' - Len(line_buf'))
      BY <1>1, <1>2, <2>5, LineAtHand
    <3>2. \/ s = consumed' - Len(line_buf')
          \/ consumed' - Len(line_buf') - s >= LINE_BUF_BYTES
      BY <1>1, <2>5
    <3>3. QED
      BY <2>4, <3>1, <3>2 DEF Collected
  <2>7. QED
    BY <1>3, <2>2, <2>3, <2>6
<1>5. CASE ~Room
  <2>1. line_buf' = <<>> /\ Len(line_buf') = 0
    BY <1>5 DEF Collect
  <2>2. b - s >= LINE_BUF_BYTES /\ s \in 0 .. b
    BY <1>1, <1>5, LineAtHand DEF Room
  <2>3. Collected'
    <3>1. LineStart(stream', s, consumed' + 1) /\ consumed' - Len(line_buf') = b
      BY <1>2, <2>1, LineAtHand
    <3>2. QED
      BY <2>1, <2>2, <3>1 DEF Collected
  <2>4. QED
    BY <1>3, <2>1, <2>3, LineAtHand
<1>6. QED
  BY <1>4, <1>5

\* What the buffer holds of a line none of which was given up is the line.
LEMMA WholeLine ==
  ASSUME RxInv, NEW s \in Nat, s = consumed - Len(line_buf), LineStart(stream, s, consumed + 1)
  PROVE  line_buf = LineEndingAt(consumed + 1)
<1>1. s \in 0 .. consumed /\ consumed + 1 \in Nat \ {0} /\ (consumed + 1) - 1 = consumed
  BY LineAtHand
<1>2. LineEndingAt(consumed + 1) = Span(s, consumed)
  BY <1>1, LineIs
<1>3. /\ Span(s, consumed) \in Seq(Nat) /\ Len(Span(s, consumed)) = consumed - s
      /\ \A i \in 1 .. (consumed - s) : Span(s, consumed)[i] = s + i
  <2>1. s \in Nat /\ consumed \in Nat /\ s <= consumed
    BY <1>1, LineAtHand
  <2>2. QED
    BY <2>1, SpanFacts
<1>4. line_buf \in Seq(Nat) /\ Len(line_buf) = consumed - s
  <2>1. 1 .. MaxBytes \subseteq Nat
    BY UsbAssumption
  <2>2. line_buf \in Seq(Nat)
    BY <2>1, LineAtHand, SeqMonotonic
  <2>3. QED
    BY <2>2, LineAtHand
<1>5. \A i \in 1 .. Len(line_buf) : line_buf[i] = Span(s, consumed)[i]
  BY <1>3, <1>4, LineAtHand
<1>6. line_buf = Span(s, consumed)
  BY <1>3, <1>4, <1>5, SeqEqual
<1>7. QED
  BY <1>2, <1>6

LEMMA NewlineKeeps ==
  ASSUME RxInv, Byte, stream[consumed + 1] = "n", Newline(consumed + 1),
         UNCHANGED stream, consumed' = consumed + 1
  PROVE  /\ Collected' /\ Parsed'
         /\ line_buf' = <<>>
<1> DEFINE b == consumed + 1
<1>1. PICK s \in Nat :
        /\ s <= consumed - Len(line_buf)
        /\ LineStart(stream, s, b)
        /\ s = consumed - Len(line_buf) \/ consumed - Len(line_buf) - s >= LINE_BUF_BYTES
  BY LineAtHand
<1>2. line_buf' = <<>> /\ Len(line_buf') = 0
  BY DEF Newline
<1>3. Collected'
  <2>1. LineStart(stream', b, b + 1)
    BY LineAtHand DEF LineStart
  <2>2. b \in 0 .. (consumed' - Len(line_buf')) /\ b = consumed' - Len(line_buf')
    BY <1>2, LineAtHand
  <2>3. QED
    BY <1>2, <2>1, <2>2 DEF Collected
<1>4. /\ frames_rx' \in {frames_rx, frames_rx \cup {b}}
      /\ parse_errors' \in {parse_errors, parse_errors \cup {b}}
      /\ line_buf = <<>> => UNCHANGED parse_errors
      /\ line_buf # <<>> /\ line_buf = LineEndingAt(b) => b \in frames_rx' /\ UNCHANGED parse_errors
  BY DEF Newline
<1>5. parse_errors \subseteq 1 .. consumed /\ parse_errors' \subseteq 1 .. consumed'
      /\ b \notin parse_errors
  <2>1. parse_errors \subseteq 1 .. consumed
    BY DEF RxInv, Parsed
  <2>2. QED
    BY <1>4, <2>1, LineAtHand
<1>6. Fate(frames_rx', parse_errors', b, b - 1 - s)
  <2>1. CASE s = consumed - Len(line_buf)
    <3>1. line_buf = LineEndingAt(b)
      BY <1>1, <2>1, WholeLine
    <3>2. b - 1 - s = Len(line_buf)
      BY <2>1, LineAtHand
    <3>3. line_buf = <<>> => Len(line_buf) = 0
      OBVIOUS
    <3>4. b \notin parse_errors'
      BY <1>4, <1>5, <3>1
    <3>5. b - 1 - s \in 1 .. (LINE_BUF_BYTES - 1) => b \in frames_rx'
      BY <1>4, <3>1, <3>2, <3>3
    <3>6. QED
      BY <3>4, <3>5 DEF Fate
  <2>2. CASE consumed - Len(line_buf) - s >= LINE_BUF_BYTES
    <3>1. b - 1 - s >= LINE_BUF_BYTES /\ b - 1 - s \notin 1 .. (LINE_BUF_BYTES - 1)
      BY <2>2, LineAtHand
    <3>2. QED
      BY <3>1 DEF Fate
  <2>3. QED
    BY <1>1, <2>1, <2>2
<1>7. Parsed'
  <2>1. ASSUME NEW n \in 1 .. consumed', stream'[n] = "n"
        PROVE  \E t \in 0 .. (n - 1) :
                 LineStart(stream', t, n) /\ Fate(frames_rx', parse_errors', n, n - 1 - t)
    <3>1. CASE n = b
      <4>1. s \in 0 .. (n - 1)
        BY <1>1, <3>1, LineAtHand
      <4>2. QED
        BY <1>1, <1>6, <3>1, <4>1
    <3>2. CASE n # b
      <4>1. n \in 1 .. consumed
        BY <3>2, LineAtHand
      <4>2. PICK t \in 0 .. (n - 1) :
                   LineStart(stream, t, n) /\ Fate(frames_rx, parse_errors, n, n - 1 - t)
        BY <2>1, <4>1 DEF RxInv, Parsed
      <4>3. (n \in frames_rx => n \in frames_rx') /\ (n \in parse_errors' => n \in parse_errors)
        BY <1>4, <3>2
      <4>4. Fate(frames_rx', parse_errors', n, n - 1 - t)
        BY <4>2, <4>3 DEF Fate
      <4>5. QED
        BY <4>2, <4>4
    <3>3. QED
      BY <3>1, <3>2
  <2>2. QED
    BY <1>5, <2>1 DEF Parsed
<1>8. QED
  BY <1>2, <1>3, <1>7

LEMMA ByteKeeps == ASSUME RxInv, Byte PROVE RxInv'
<1>1. /\ UNCHANGED <<stream, taken, irq, rx_ringbuf, rx_sem, rx_throttled>>
      /\ thread' \in {"get", "bytes"} /\ thread = "bytes"
      /\ IF stream[consumed + 1] = "n" THEN Newline(consumed + 1) ELSE Collect(consumed + 1)
  BY NextByte DEF Byte, uart
<1>2. /\ Collected' /\ Parsed'
      /\ line_buf' \in Seq(1 .. MaxBytes) /\ Len(line_buf') < LINE_BUF_BYTES
  <2>1. CASE stream[consumed + 1] = "n"
    <3>1. Collected' /\ Parsed' /\ line_buf' = <<>>
      BY <1>1, <2>1, NewlineKeeps, NextByte
    <3>2. <<>> \in Seq(1 .. MaxBytes) /\ Len(<<>>) < LINE_BUF_BYTES
      BY UsbAssumption
    <3>3. QED
      BY <3>1, <3>2
  <2>2. CASE stream[consumed + 1] # "n"
    BY <1>1, <2>2, CollectKeeps, NextByte
  <2>3. QED
    BY <2>1, <2>2
<1>3. TypeOK'
  <2>1. consumed' \in 0 .. taken'
    BY <1>1, NextByte DEF RxInv, TypeOK
  <2>2. /\ frames_rx' \subseteq 1 .. MaxBytes /\ parse_errors' \subseteq 1 .. MaxBytes
        /\ line_overruns' \subseteq 1 .. MaxBytes
    <3>1. \A S \in {frames_rx, parse_errors, line_overruns} : S \cup {consumed + 1} \subseteq 1 .. MaxBytes
      BY NextByte DEF RxInv, TypeOK
    <3>2. /\ frames_rx' \in {frames_rx, frames_rx \cup {consumed + 1}}
          /\ parse_errors' \in {parse_errors, parse_errors \cup {consumed + 1}}
          /\ line_overruns' \in {line_overruns, line_overruns \cup {consumed + 1}}
      BY <1>1 DEF Newline, Collect
    <3>3. QED
      BY <3>1, <3>2
  <2>3. QED
    BY <1>1, <1>2, <2>1, <2>2, NextByte DEF RxInv, TypeOK
<1>4. Waking' /\ Throttled'
  BY <1>1 DEF RxInv, Waking, Throttled
<1>5. QED
  BY <1>2, <1>3, <1>4, NextByte DEF RxInv

-----------------------------------------------------------------------------
LEMMA StepKeeps == ASSUME RxInv, [Next]_vars PROVE RxInv'
<1>1. CASE UNCHANGED vars
  <2>1. Collected' /\ Parsed'
    BY <1>1, LinesUntouched DEF vars, uart
  <2>2. TypeOK' /\ Order' /\ Waking' /\ Throttled'
    BY <1>1 DEF vars, uart, counts, RxInv, TypeOK, Order, Waking, Throttled
  <2>3. QED
    BY <2>1, <2>2 DEF RxInv
<1>2. QED
  BY <1>1, HostSendsKeeps, InterruptKeeps, ThrottleKeeps, WakeKeeps, GetKeeps, ByteKeeps,
     CheckKeeps, ResumeKeeps DEF Next, Uart, RxThread

THEOREM Invariance == Spec => []RxInv
  BY InitRxInv, StepKeeps, PTL DEF Spec

\* usb_handler.c: ring, chunk, line buffer and semaphore never exceed their capacities.
THEOREM TypeCorrect == Spec => []TypeOK
<1>1. RxInv => TypeOK
  BY DEF RxInv
<1>2. QED
  BY <1>1, Invariance, PTL

\* interrupt_handler and rx_thread_fn: what has left the UART and is not yet dealt with is in
\* the chunk and the ring, every byte once and in order.
THEOREM NothingLost == Spec => []BytesInOrder
<1>1. ASSUME RxInv PROVE BytesInOrder
  <2>1. /\ chunk \in Seq(1 .. MaxBytes) /\ rx_ringbuf \in Seq(1 .. MaxBytes)
        /\ consumed \in Nat /\ taken \in Nat /\ consumed <= taken /\ taken <= MaxBytes
        /\ Len(chunk) \in Nat /\ Len(rx_ringbuf) \in Nat
    BY <1>1, UsbAssumption DEF RxInv, TypeOK
  <2>2. /\ Span(consumed, taken) \in Seq(1 .. MaxBytes)
        /\ Len(Span(consumed, taken)) = taken - consumed
        /\ \A i \in 1 .. (taken - consumed) : Span(consumed, taken)[i] = consumed + i
    BY <2>1, SpanFacts, SpanTyped
  <2>3. /\ Len(chunk) + Len(rx_ringbuf) = taken - consumed
        /\ \A i \in 1 .. Len(chunk) : chunk[i] = consumed + i
        /\ \A i \in 1 .. Len(rx_ringbuf) : rx_ringbuf[i] = consumed + Len(chunk) + i
    BY <1>1 DEF RxInv, Order
  <2>4. /\ chunk \o rx_ringbuf \in Seq(1 .. MaxBytes)
        /\ Len(chunk \o rx_ringbuf) = Len(chunk) + Len(rx_ringbuf)
        /\ \A i \in 1 .. (Len(chunk) + Len(rx_ringbuf)) :
             (chunk \o rx_ringbuf)[i] = IF i <= Len(chunk) THEN chunk[i]
                                        ELSE rx_ringbuf[i - Len(chunk)]
    BY <2>1, ConcatProperties
  <2>5. \A i \in 1 .. (taken - consumed) : (chunk \o rx_ringbuf)[i] = consumed + i
    BY <2>1, <2>3, <2>4
  <2>6. QED
    BY <2>2, <2>3, <2>4, <2>5, SeqEqual DEF BytesInOrder
<1>2. RxInv => BytesInOrder
  BY <1>1
<1>3. QED
  BY <1>2, Invariance, PTL

\* rx_thread_fn never waits on a semaphore that is down while bytes lie in the ring or
\* reception is stopped, although k_sem_give is lost at its limit of 1.
THEOREM WakeupsKept == Spec => []NoLostWakeup
<1>1. RxInv => NoLostWakeup
  <2>1. RxInv /\ rx_ringbuf # <<>> => Len(rx_ringbuf) > 0
    BY DEF RxInv, TypeOK
  <2>2. QED
    BY <2>1 DEF RxInv, Waking, NoLostWakeup
<1>2. QED
  BY <1>1, Invariance, PTL

\* The interrupt is not enabled while rx_throttled is set, whichever statement of the resume
\* sequence it comes between.
THEOREM NeverSpins == Spec => []NoInterruptSpin
<1>1. RxInv => NoInterruptSpin
  BY DEF RxInv, Throttled, NoInterruptSpin
<1>2. QED
  BY <1>1, Invariance, PTL

\* Every line that fits into the line buffer is parsed, whatever came before it, and a parse
\* error comes only from a line of LINE_BUF_BYTES bytes or more.
THEOREM LinesParsed == Spec => []LinesArrive
<1>1. ASSUME RxInv PROVE LinesArrive
  <2> SUFFICES ASSUME NEW n \in 1 .. consumed, stream[n] = "n"
               PROVE  Fate(frames_rx, parse_errors, n, Len(LineEndingAt(n)))
    BY DEF LinesArrive, Fate
  <2>1. consumed \in Nat
    BY <1>1, LineAtHand
  <2>2. PICK s \in 0 .. (n - 1) :
               LineStart(stream, s, n) /\ Fate(frames_rx, parse_errors, n, n - 1 - s)
    BY <1>1 DEF RxInv, Parsed
  <2>3. LineEndingAt(n) = Span(s, n - 1)
    BY <2>1, <2>2, LineIs
  <2>4. Len(Span(s, n - 1)) = n - 1 - s
    BY <2>1 DEF Span
  <2>5. QED
    BY <2>2, <2>3, <2>4
<1>2. RxInv => LinesArrive
  BY <1>1
<1>3. QED
  BY <1>2, Invariance, PTL
=============================================================================
