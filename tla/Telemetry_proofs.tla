-------------------------- MODULE Telemetry_proofs --------------------------
(***************************************************************************)
(* Proofs about the bridge, the data port and their composition, for every *)
(* depth of the bridge's queue, every number of frames and whatever the    *)
(* aircraft.  Every step of TelemetrySpec is a step of Bridge and one of   *)
(* DataPort, or leaves their variables alone, so that what is proved of    *)
(* each of them holds of the composition.                                  *)
(***************************************************************************)
EXTENDS Telemetry, SequenceTheorems, TLAPS

-----------------------------------------------------------------------------
(* The bridge.  FramesAccounted is inductive with the types.  FedInOrder     *)
(* needs to know that numbers grow along the whole way: those fed are below  *)
(* the one in the thread's hands, which is below those in the queue, which   *)
(* have been submitted; and that the record upserted is the frame's in hand. *)

AFrame == [id : Nat, verdict : Verdict]

Types ==
  /\ bridge_msgq \in Seq(AFrame)
  /\ thread \in {"get", "convert", "count", "upsert"}
  /\ thread # "get" => in \in AFrame
  /\ out \in Nat
  /\ stats \in [Counter -> Nat]
  /\ fed \in Seq(Nat)

QueueOrder ==
  \A i \in DOMAIN bridge_msgq :
    /\ bridge_msgq[i].id <= stats["submitted"]
    /\ \A j \in DOMAIN bridge_msgq : i < j => bridge_msgq[i].id < bridge_msgq[j].id

FedOrder ==
  \A i \in DOMAIN fed :
    /\ fed[i] <= stats["submitted"]
    /\ \A j \in DOMAIN bridge_msgq : fed[i] < bridge_msgq[j].id

HandOrder ==
  thread # "get" =>
    /\ in.id <= stats["submitted"]
    /\ \A i \in DOMAIN fed : fed[i] < in.id
    /\ \A j \in DOMAIN bridge_msgq : in.id < bridge_msgq[j].id

Converted == thread \in {"count", "upsert"} => out = in.id

BridgeInv ==
  Types /\ FramesAccounted /\ QueueOrder /\ FedOrder /\ HandOrder /\ Converted /\ FedInOrder

LEMMA AppendFacts ==
  ASSUME NEW S, NEW s \in Seq(S), NEW e \in S
  PROVE  /\ Append(s, e) \in Seq(S)
         /\ Len(Append(s, e)) = Len(s) + 1
         /\ DOMAIN Append(s, e) = 1 .. (Len(s) + 1)
         /\ DOMAIN s = 1 .. Len(s)
         /\ \A i \in 1 .. Len(s) : Append(s, e)[i] = s[i]
         /\ Append(s, e)[Len(s) + 1] = e
  OBVIOUS

LEMMA TailFacts ==
  ASSUME NEW S, NEW s \in Seq(S), s # <<>>
  PROVE  /\ Head(s) \in S /\ Head(s) = s[1] /\ 1 \in DOMAIN s
         /\ Tail(s) \in Seq(S)
         /\ Len(Tail(s)) = Len(s) - 1
         /\ DOMAIN s = 1 .. Len(s)
         /\ DOMAIN Tail(s) = 1 .. (Len(s) - 1)
         /\ \A i \in 1 .. (Len(s) - 1) : Tail(s)[i] = s[i + 1]
  OBVIOUS

LEMMA Numbered == ASSUME NEW s \in Seq(AFrame) PROVE \A i \in DOMAIN s : s[i].id \in Nat
<1>1. \A i \in DOMAIN s : s[i] \in AFrame
  OBVIOUS
<1>2. QED
  BY <1>1 DEF AFrame

\* The counters st, q frames in the queue and h in hand add up.
Balanced(st, q, h) ==
  st["submitted"] = st["drops"] + q + h + st["converted"]
                      + st["rej_source"] + st["rej_icao"] + st["rej_latlon"]

LEMMA OneQueued ==
  ASSUME NEW st \in [Counter -> Nat], NEW q \in Nat, NEW h \in Nat, Balanced(st, q, h)
  PROVE  Balanced([st EXCEPT !["submitted"] = @ + 1], q + 1, h)
  BY DEF Balanced, Counter

LEMMA OneDropped ==
  ASSUME NEW st \in [Counter -> Nat], NEW q \in Nat, NEW h \in Nat, Balanced(st, q, h)
  PROVE  Balanced([st EXCEPT !["submitted"] = @ + 1, !["drops"] = @ + 1], q, h)
  BY DEF Balanced, Counter

LEMMA OneDone ==
  ASSUME NEW st \in [Counter -> Nat], NEW q \in Nat, Balanced(st, q, 1),
         NEW c \in {"converted", "rej_source", "rej_icao", "rej_latlon"}
  PROVE  Balanced([st EXCEPT ![c] = @ + 1], q, 0)
  BY DEF Balanced, Counter

LEMMA Sizes == ASSUME Types PROVE Len(bridge_msgq) \in Nat /\ InHand \in Nat
  BY DEF Types, InHand

LEMMA BridgeInitInv == Init => BridgeInv
<1> SUFFICES ASSUME Init PROVE BridgeInv
  OBVIOUS
<1>1. Types
  BY DEF Init, Types
<1>2. FramesAccounted
  BY DEF Init, FramesAccounted, InHand, Counter
<1>3. QED
  BY <1>1, <1>2 DEF Init, BridgeInv, QueueOrder, FedOrder, HandOrder, Converted, FedInOrder

LEMMA SubmitKeeps == ASSUME BridgeInv, NEW v \in Verdict, Submit(v) PROVE BridgeInv'
<1> DEFINE f == [id |-> stats["submitted"] + 1, verdict |-> v]
<1>1. /\ bridge_msgq \in Seq(AFrame) /\ stats \in [Counter -> Nat] /\ fed \in Seq(Nat)
      /\ "submitted" \in Counter /\ "drops" \in Counter
  BY DEF BridgeInv, Types, Counter
<1>2. f \in AFrame /\ f.id = stats["submitted"] + 1 /\ stats["submitted"] \in Nat
  BY <1>1 DEF AFrame
<1>3. Enqueue(f) /\ UNCHANGED <<thread, in, out, fed>>
  BY DEF Submit
<1>4. CASE Room
  <2>1. bridge_msgq' = Append(bridge_msgq, f) /\ stats' = [stats EXCEPT !["submitted"] = @ + 1]
    BY <1>3, <1>4 DEF Enqueue, Counted
  <2> HIDE DEF f
  <2>2. /\ stats' \in [Counter -> Nat]
        /\ stats'["submitted"] = stats["submitted"] + 1
        /\ \A c \in Counter \ {"submitted"} : stats'[c] = stats[c]
    BY <1>1, <2>1
  <2>3. /\ bridge_msgq' \in Seq(AFrame)
        /\ Len(bridge_msgq') = Len(bridge_msgq) + 1
        /\ DOMAIN bridge_msgq' = 1 .. (Len(bridge_msgq) + 1)
        /\ DOMAIN bridge_msgq = 1 .. Len(bridge_msgq)
        /\ \A i \in 1 .. Len(bridge_msgq) : bridge_msgq'[i] = bridge_msgq[i]
        /\ bridge_msgq'[Len(bridge_msgq) + 1] = f
    BY <1>1, <1>2, <2>1, AppendFacts
  <2>4. Types'
    BY <1>3, <2>2, <2>3 DEF BridgeInv, Types
  <2>5. FramesAccounted'
    <3>1. InHand' = InHand
      BY <1>3 DEF InHand
    <3>2. Balanced(stats, Len(bridge_msgq), InHand)
      BY DEF BridgeInv, FramesAccounted, Balanced
    <3>3. Balanced(stats', Len(bridge_msgq) + 1, InHand)
      BY <1>1, <2>1, <3>2, OneQueued, Sizes DEF BridgeInv
    <3>4. QED
      BY <2>3, <3>1, <3>3 DEF FramesAccounted, Balanced
  <2>6. \A i \in DOMAIN bridge_msgq : bridge_msgq[i].id \in Nat
    BY <1>1, Numbered
  <2> DEFINE n == Len(bridge_msgq) + 1
  <2>7. /\ \A i \in DOMAIN bridge_msgq' : i # n => i \in DOMAIN bridge_msgq /\ i < n
        /\ \A i \in DOMAIN bridge_msgq : bridge_msgq'[i] = bridge_msgq[i]
        /\ bridge_msgq'[n].id = stats'["submitted"]
        /\ \A i \in DOMAIN bridge_msgq' : i \in Nat /\ i <= n
        /\ n \in Nat
    BY <1>1, <1>2, <2>2, <2>3
  <2> HIDE DEF n
  <2>8. \A i \in DOMAIN bridge_msgq : bridge_msgq'[i].id < bridge_msgq'[n].id
    BY <1>2, <2>2, <2>6, <2>7 DEF BridgeInv, QueueOrder
  <2>9. QueueOrder'
    <3> SUFFICES ASSUME NEW i \in DOMAIN bridge_msgq'
                 PROVE  /\ bridge_msgq'[i].id <= stats'["submitted"]
                        /\ \A j \in DOMAIN bridge_msgq' :
                             i < j => bridge_msgq'[i].id < bridge_msgq'[j].id
      BY DEF QueueOrder
    <3>1. CASE i = n
      BY <3>1, <1>2, <2>2, <2>7
    <3>2. CASE i # n
      BY <3>2, <1>2, <2>2, <2>6, <2>7, <2>8 DEF BridgeInv, QueueOrder
    <3>3. QED
      BY <3>1, <3>2
  <2>10. \A i \in DOMAIN fed : fed[i] \in Nat
    BY <1>1
  <2>11. FedOrder'
    BY <1>2, <1>3, <2>2, <2>7, <2>10 DEF BridgeInv, FedOrder
  <2>12. thread # "get" => in.id \in Nat
    BY DEF BridgeInv, Types, AFrame
  <2>13. HandOrder'
    BY <1>2, <1>3, <2>2, <2>7, <2>12 DEF BridgeInv, HandOrder
  <2>14. QED
    BY <1>3, <2>4, <2>5, <2>9, <2>11, <2>13 DEF BridgeInv, Converted, FedInOrder
<1>5. CASE ~Room
  <2>1. /\ UNCHANGED bridge_msgq
        /\ stats' = [stats EXCEPT !["submitted"] = @ + 1, !["drops"] = @ + 1]
    BY <1>3, <1>5 DEF Enqueue
  <2>2. /\ stats' \in [Counter -> Nat]
        /\ stats'["submitted"] = stats["submitted"] + 1 /\ stats'["drops"] = stats["drops"] + 1
        /\ \A c \in Counter \ {"submitted", "drops"} : stats'[c] = stats[c]
    BY <1>1, <2>1
  <2>3. Types'
    BY <1>3, <2>1, <2>2 DEF BridgeInv, Types
  <2>4. FramesAccounted'
    <3>1. InHand' = InHand
      BY <1>3 DEF InHand
    <3>2. Balanced(stats, Len(bridge_msgq), InHand)
      BY DEF BridgeInv, FramesAccounted, Balanced
    <3>3. Balanced(stats', Len(bridge_msgq), InHand)
      BY <1>1, <2>1, <3>2, OneDropped, Sizes DEF BridgeInv
    <3>4. QED
      BY <2>1, <3>1, <3>3 DEF FramesAccounted, Balanced
  <2>5. /\ \A i \in DOMAIN bridge_msgq : bridge_msgq[i].id \in Nat
        /\ \A i \in DOMAIN fed : fed[i] \in Nat
        /\ thread # "get" => in.id \in Nat
    <3>1. \A i \in DOMAIN bridge_msgq : bridge_msgq[i].id \in Nat
      BY <1>1, Numbered
    <3>2. thread # "get" => in.id \in Nat
      BY DEF BridgeInv, Types, AFrame
    <3>3. QED
      BY <1>1, <3>1, <3>2
  <2>6. QueueOrder' /\ FedOrder' /\ HandOrder'
    <3>1. QueueOrder /\ FedOrder /\ HandOrder
      BY DEF BridgeInv
    <3>2. QueueOrder'
      BY <1>2, <2>1, <2>2, <2>5, <3>1 DEF QueueOrder
    <3>3. FedOrder'
      BY <1>2, <1>3, <2>1, <2>2, <2>5, <3>1 DEF FedOrder
    <3>4. HandOrder'
      BY <1>2, <1>3, <2>1, <2>2, <2>5, <3>1 DEF HandOrder
    <3>5. QED
      BY <3>2, <3>3, <3>4
  <2>7. QED
    BY <1>3, <2>1, <2>3, <2>4, <2>6 DEF BridgeInv, Converted, FedInOrder
<1>6. QED
  BY <1>4, <1>5

LEMMA GetKeeps == ASSUME BridgeInv, Get PROVE BridgeInv'
<1>1. bridge_msgq \in Seq(AFrame) /\ bridge_msgq # <<>> /\ stats \in [Counter -> Nat]
  BY DEF BridgeInv, Types, Get
<1>2. /\ Head(bridge_msgq) \in AFrame /\ in' = bridge_msgq[1] /\ 1 \in DOMAIN bridge_msgq
      /\ bridge_msgq' \in Seq(AFrame)
      /\ Len(bridge_msgq') = Len(bridge_msgq) - 1
      /\ DOMAIN bridge_msgq = 1 .. Len(bridge_msgq)
      /\ DOMAIN bridge_msgq' = 1 .. (Len(bridge_msgq) - 1)
      /\ \A i \in 1 .. (Len(bridge_msgq) - 1) : bridge_msgq'[i] = bridge_msgq[i + 1]
  BY <1>1, TailFacts DEF Get
<1>3. Types'
  BY <1>2 DEF BridgeInv, Types, Get
<1>4. FramesAccounted'
  BY <1>1, <1>2 DEF BridgeInv, FramesAccounted, InHand, Counter, Get
<1>5. QueueOrder'
  BY <1>1, <1>2 DEF BridgeInv, QueueOrder, Get
<1>6. FedOrder'
  BY <1>1, <1>2 DEF BridgeInv, FedOrder, Get
<1>7. HandOrder'
  BY <1>1, <1>2 DEF BridgeInv, QueueOrder, FedOrder, HandOrder, Get
<1>8. QED
  BY <1>3, <1>4, <1>5, <1>6, <1>7 DEF BridgeInv, Converted, FedInOrder, Get

LEMMA RejectKeeps == ASSUME BridgeInv, Reject PROVE BridgeInv'
<1>1. in.verdict \in {"rej_source", "rej_icao", "rej_latlon"} /\ stats \in [Counter -> Nat]
  BY BridgeAssumption DEF BridgeInv, Types, AFrame, Reject
<1>2. /\ stats' \in [Counter -> Nat]
      /\ stats'[in.verdict] = stats[in.verdict] + 1
      /\ \A c \in Counter \ {in.verdict} : stats'[c] = stats[c]
  BY <1>1 DEF Reject, Counted, Counter
<1>3. Types'
  BY <1>2 DEF BridgeInv, Types, Reject
<1>4. FramesAccounted'
  <2>1. InHand = 1 /\ InHand' = 0 /\ UNCHANGED bridge_msgq
    BY DEF InHand, Reject
  <2>2. Balanced(stats, Len(bridge_msgq), 1)
    BY <2>1 DEF BridgeInv, FramesAccounted, Balanced
  <2>3. Balanced(stats', Len(bridge_msgq), 0)
    BY <1>1, <2>2, OneDone, Sizes DEF BridgeInv, Reject, Counted
  <2>4. QED
    BY <2>1, <2>3 DEF FramesAccounted, Balanced
<1>5. stats'["submitted"] = stats["submitted"]
  BY <1>1, <1>2 DEF Counter
<1>6. QED
  BY <1>3, <1>4, <1>5 DEF BridgeInv, QueueOrder, FedOrder, HandOrder, Converted, FedInOrder, Reject

LEMMA ConvertKeeps == ASSUME BridgeInv, Convert PROVE BridgeInv'
<1>1. Types'
  BY DEF BridgeInv, Types, AFrame, Convert
<1>2. FramesAccounted'
  BY DEF BridgeInv, FramesAccounted, InHand, Convert
<1>3. QED
  BY <1>1, <1>2 DEF BridgeInv, QueueOrder, FedOrder, HandOrder, Converted, FedInOrder, Convert

LEMMA CountKeeps == ASSUME BridgeInv, Count PROVE BridgeInv'
<1>1. stats \in [Counter -> Nat]
  BY DEF BridgeInv, Types
<1>2. /\ stats' \in [Counter -> Nat]
      /\ stats'["converted"] = stats["converted"] + 1
      /\ \A c \in Counter \ {"converted"} : stats'[c] = stats[c]
  BY <1>1 DEF Count, Counted, Counter
<1>3. Types'
  BY <1>2 DEF BridgeInv, Types, Count
<1>4. FramesAccounted'
  <2>1. InHand = 1 /\ InHand' = 0 /\ UNCHANGED bridge_msgq
    BY DEF InHand, Count
  <2>2. Balanced(stats, Len(bridge_msgq), 1)
    BY <2>1 DEF BridgeInv, FramesAccounted, Balanced
  <2>3. Balanced(stats', Len(bridge_msgq), 0)
    BY <1>1, <2>2, OneDone, Sizes DEF BridgeInv, Count, Counted
  <2>4. QED
    BY <2>1, <2>3 DEF FramesAccounted, Balanced
<1>5. stats'["submitted"] = stats["submitted"]
  BY <1>1, <1>2 DEF Counter
<1>6. QED
  BY <1>3, <1>4, <1>5 DEF BridgeInv, QueueOrder, FedOrder, HandOrder, Converted, FedInOrder, Count

LEMMA UpsertKeeps == ASSUME BridgeInv, Upsert PROVE BridgeInv'
<1>1. fed \in Seq(Nat) /\ out \in Nat /\ out = in.id /\ stats \in [Counter -> Nat]
  BY DEF BridgeInv, Types, Converted, Upsert
<1>2. /\ fed' \in Seq(Nat)
      /\ DOMAIN fed' = 1 .. (Len(fed) + 1)
      /\ DOMAIN fed = 1 .. Len(fed)
      /\ \A i \in 1 .. Len(fed) : fed'[i] = fed[i]
      /\ fed'[Len(fed) + 1] = out
      /\ Len(fed) \in Nat
  BY <1>1, AppendFacts DEF Upsert
<1>3. Types'
  BY <1>2 DEF BridgeInv, Types, Upsert
<1>4. FramesAccounted'
  BY DEF BridgeInv, FramesAccounted, InHand, Upsert
<1>5. /\ \A i \in DOMAIN fed : fed[i] < out
      /\ out <= stats["submitted"] /\ \A j \in DOMAIN bridge_msgq : out < bridge_msgq[j].id
  BY <1>1 DEF BridgeInv, HandOrder, Upsert
<1>6. FedOrder'
  BY <1>2, <1>5 DEF BridgeInv, FedOrder, Upsert
<1>7. FedInOrder'
  BY <1>1, <1>2, <1>5 DEF BridgeInv, FedInOrder, Upsert
<1>8. QED
  BY <1>3, <1>4, <1>6, <1>7 DEF BridgeInv, QueueOrder, HandOrder, Converted, Upsert

\* BridgeInv is inductive.
THEOREM BridgeInvariance == Spec => []BridgeInv
<1>1. BridgeInv /\ [Next]_vars => BridgeInv'
  <2> SUFFICES ASSUME BridgeInv, [Next]_vars PROVE BridgeInv'
    OBVIOUS
  <2>1. CASE UNCHANGED vars
    BY <2>1 DEF vars, BridgeInv, Types, FramesAccounted, InHand, QueueOrder, FedOrder,
                HandOrder, Converted, FedInOrder
  <2>2. CASE BridgeThread
    BY <2>2, GetKeeps, RejectKeeps, ConvertKeeps, CountKeeps, UpsertKeeps DEF BridgeThread
  <2>3. QED
    BY <2>1, <2>2, SubmitKeeps DEF Next
<1>2. QED
  BY <1>1, BridgeInitInv, PTL DEF Spec

-----------------------------------------------------------------------------
(* The data port.  LinesWhole is not inductive.  PortInv adds what the mutex *)
(* protects: at most one writer is between its lock and its unlock, and what *)
(* the host has of the current line is what that writer has printed of it,   *)
(* unless the port was opened or the read timed out in the middle of it.     *)

Printing == {"first", "second"}

\* The thread that prints owns the mutex.
Owner == \A t \in Thread : at[t] \in Printing <=> g_tx_mutex = t

\* The host's part of the line is the owner's first half, or nothing.
HalfLine ==
  ~cut => IF \E t \in Thread : at[t] = "second"
          THEN \A t \in Thread : at[t] = "second" => rx = <<<<line[t], 1>>>>
          ELSE rx = <<>>

PortInv == PortTypeOK /\ Owner /\ HalfLine /\ (~dtr => cut) /\ LinesWhole

LEMMA EmptyTyped == ASSUME NEW S PROVE <<>> \in Seq(S)
  OBVIOUS

LEMMA AppendTyped == ASSUME NEW S, NEW s \in Seq(S), NEW e \in S PROVE Append(s, e) \in Seq(S)
  OBVIOUS

LEMMA TwoHalves ==
  ASSUME NEW S, NEW a \in S, NEW b \in S PROVE Append(<<a>>, b) = <<a, b>>
<1>1. <<a>> \in Seq(S) /\ <<a, b>> \in Seq(S) /\ Append(<<a>>, b) \in Seq(S)
  OBVIOUS
<1>2. Len(Append(<<a>>, b)) = 2 /\ Len(<<a, b>>) = 2
  BY <1>1
<1>3. \A i \in 1 .. 2 : Append(<<a>>, b)[i] = <<a, b>>[i]
  BY <1>1
<1>4. QED
  BY <1>1, <1>2, <1>3, SeqEqual

LEMMA PortInitInv == PortInit => PortInv
<1> SUFFICES ASSUME PortInit PROVE PortInv
  OBVIOUS
<1>1. rx \in Seq(Line \X {1, 2})
  BY EmptyTyped DEF PortInit
<1>2. line \in [Thread -> Line]
  BY DEF PortInit, Line
<1>3. PortTypeOK
  BY <1>1, <1>2 DEF PortInit, PortTypeOK
<1>4. QED
  BY <1>3 DEF PortInit, PortInv, Owner, HalfLine, LinesWhole, Printing, Thread

\* A step that neither prints nor takes the mutex, and that leaves the host and the
\* line of a printing thread alone.
LEMMA QuietStep ==
  ASSUME PortInv, PortTypeOK',
         UNCHANGED <<g_tx_mutex, rx, cut, torn, dtr>>,
         \A t \in Thread : at[t] \in Printing \/ at'[t] \in Printing
                             => at'[t] = at[t] /\ line'[t] = line[t]
  PROVE  PortInv'
<1>1. Owner'
  BY DEF PortInv, Owner
<1>2. \A t \in Thread : at'[t] = "second" <=> at[t] = "second"
  BY DEF Printing
<1>3. HalfLine'
  BY <1>2 DEF PortInv, HalfLine, Printing
<1>4. QED
  BY <1>1, <1>3 DEF PortInv, LinesWhole

LEMMA PublishKeeps == ASSUME PortInv, Publish PROVE PortInv'
<1> USE DEF Thread, Printing, Goto, Println, PortInv, PortTypeOK, hostVars
<1>1. CASE PublishStart
  <2>1. s_snapshot' \subseteq Row
    BY <1>1 DEF PublishStart, Rows, Known, Row
  <2>2. PortTypeOK'
    BY <1>1, <2>1 DEF PublishStart
  <2>3. QED
    BY <1>1, <2>2, QuietStep DEF PublishStart
<1>2. CASE PublishEnd
  BY <1>2, QuietStep DEF PublishEnd
<1>3. ASSUME NEW r \in s_snapshot, PublishRow(r) PROVE PortInv'
  <2>1. r \in Line
    BY DEF Line
  <2>2. PortTypeOK'
    BY <1>3, <2>1 DEF PublishRow
  <2>3. QED
    BY <1>3, <2>2, QuietStep DEF PublishRow
<1>4. ASSUME NEW r \in s_snapshot, FormatError(r) PROVE PortInv'
  BY <1>4, QuietStep DEF FormatError
<1>5. QED
  BY <1>1, <1>2, <1>3, <1>4 DEF Publish

LEMMA AlertsKeep == ASSUME PortInv, Alerts PROVE PortInv'
<1> USE DEF Thread, Printing, Goto, Println, PortInv, PortTypeOK, hostVars
<1>1. PICK t \in Thread : EmitAlert(t)
  BY DEF Alerts
<1>2. Alert \in Line
  BY DEF Line
<1>3. PortTypeOK'
  BY <1>1, <1>2 DEF EmitAlert
<1>4. QED
  BY <1>1, <1>3, QuietStep DEF EmitAlert

LEMMA HostKeeps == ASSUME PortInv, Host PROVE PortInv'
<1> USE DEF PortInv, Owner, HalfLine, LinesWhole, portVars
<1>1. CASE OpenPort
  BY <1>1 DEF OpenPort, PortTypeOK
<1>2. CASE ClosePort
  <2>1. rx' \in Seq(Line \X {1, 2})
    BY <1>2, EmptyTyped DEF ClosePort
  <2>2. PortTypeOK'
    BY <1>2, <2>1 DEF ClosePort, PortTypeOK
  <2>3. QED
    BY <1>2, <2>2 DEF ClosePort
<1>3. CASE ReadTimeout
  <2>1. rx' \in Seq(Line \X {1, 2})
    BY <1>3, EmptyTyped DEF ReadTimeout
  <2>2. PortTypeOK'
    BY <1>3, <2>1 DEF ReadTimeout, PortTypeOK
  <2>3. QED
    BY <1>3, <2>2 DEF ReadTimeout
<1>4. QED
  BY <1>1, <1>2, <1>3 DEF Host

LEMMA LockKeeps == ASSUME PortInv, NEW t \in Thread, Lock(t) PROVE PortInv'
<1> USE DEF Lock, Goto, hostVars, PortInv
<1>1. PortTypeOK'
  BY DEF PortTypeOK
<1>2. Owner'
  BY DEF Owner, Printing, PortTypeOK, Thread
<1>3. \A u \in Thread : at[u] # "second" /\ at'[u] # "second"
  BY DEF Owner, Printing, PortTypeOK, Thread
<1>4. HalfLine'
  BY <1>3 DEF HalfLine
<1>5. QED
  BY <1>1, <1>2, <1>4 DEF LinesWhole

LEMMA FirstKeeps == ASSUME PortInv, NEW t \in Thread, PrintFirst(t) PROVE PortInv'
<1> USE DEF PrintFirst, Goto, PortInv
<1>1. line[t] \in Line /\ <<line[t], 1>> \in Line \X {1, 2}
  BY DEF PortTypeOK
<1>2. \/ rx' = Append(rx, <<line[t], 1>>) /\ UNCHANGED <<shown, cut, torn>>
      \/ ~dtr /\ UNCHANGED <<rx, shown, cut, torn>>
  BY DEF PollOut
<1>3. PortTypeOK'
  <2>1. rx' \in Seq(Line \X {1, 2})
    <3>1. rx \in Seq(Line \X {1, 2})
      BY DEF PortTypeOK
    <3>2. Append(rx, <<line[t], 1>>) \in Seq(Line \X {1, 2})
      BY <1>1, <3>1, AppendTyped
    <3>3. QED
      BY <1>2, <3>1, <3>2
  <2>2. QED
    BY <1>2, <2>1 DEF PortTypeOK
<1>4. Owner'
  BY DEF Owner, Printing, PortTypeOK
<1>5. /\ \A u \in Thread : at[u] # "second"
      /\ \A u \in Thread : at'[u] = "second" <=> u = t
  BY DEF Owner, Printing, PortTypeOK
<1>6. HalfLine'
  <2>1. CASE cut
    BY <1>2, <2>1 DEF HalfLine
  <2>2. CASE ~cut
    <3>1. rx = <<>> /\ rx' = Append(rx, <<line[t], 1>>)
      BY <1>2, <1>5, <2>2 DEF HalfLine
    <3>2. rx' = <<<<line[t], 1>>>>
      BY <3>1, <1>1
    <3>3. QED
      BY <3>2, <1>5 DEF HalfLine
  <2>3. QED
    BY <2>1, <2>2 DEF PortTypeOK
<1>7. QED
  BY <1>2, <1>3, <1>4, <1>6 DEF LinesWhole

LEMMA SecondKeeps == ASSUME PortInv, NEW t \in Thread, PrintSecond(t) PROVE PortInv'
<1> USE DEF PrintSecond, Return, Goto, PortInv
<1> DEFINE halves == Append(rx, <<line[t], 2>>)
<1>1. line[t] \in Line /\ <<line[t], 2>> \in Line \X {1, 2} /\ rx \in Seq(Line \X {1, 2})
  BY DEF PortTypeOK
<1>2. halves[Len(halves)][1] = line[t]
  BY <1>1
<1>3. \/ \E full \in BOOLEAN : ReadLine(halves, full)
      \/ ~dtr /\ UNCHANGED <<rx, shown, cut, torn>>
  BY DEF PollOut
<1>4. shown' \in [Icao -> Nat]
  BY <1>1, <1>2, <1>3 DEF ReadLine, PortTypeOK, Line, Row
<1>5. rx' \in Seq(Line \X {1, 2}) /\ cut' \in BOOLEAN /\ torn' \in BOOLEAN
  <2>1. rx' = <<>> \/ rx' = rx
    BY <1>3 DEF ReadLine
  <2>2. cut' \in BOOLEAN /\ torn' \in BOOLEAN
    BY <1>3 DEF ReadLine, PortTypeOK
  <2>3. QED
    BY <1>1, <2>1, <2>2, EmptyTyped
<1>6. PortTypeOK'
  BY <1>4, <1>5 DEF PortTypeOK
<1>7. \A u \in Thread : (u # t => at[u] \notin Printing) /\ at'[u] \notin Printing
  BY DEF Owner, Printing, PortTypeOK
<1>8. Owner'
  BY <1>7, <1>6 DEF Owner, PortTypeOK, Thread
<1>9. ~cut => rx = <<<<line[t], 1>>>>
  BY DEF HalfLine
<1>10. ~cut => halves = <<<<line[t], 1>>, <<line[t], 2>>>>
  BY <1>9, <1>1, TwoHalves, <<line[t], 1>> \in Line \X {1, 2}
<1>11. ~torn' /\ (~dtr => cut') /\ (rx' = <<>> \/ cut')
  BY <1>2, <1>3, <1>10 DEF ReadLine, LinesWhole, PortTypeOK
<1>12. HalfLine'
  BY <1>7, <1>11 DEF HalfLine, Printing
<1>13. QED
  BY <1>6, <1>8, <1>11, <1>12 DEF LinesWhole

LEMMA DatabaseKeeps ==
  ASSUME PortInv, NEW i \in Icao, Evict(i) \/ \E n \in Nat : Report(i, n)
  PROVE  PortInv'
<1>1. UNCHANGED <<portVars, hostVars>> /\ db' \in [Icao -> Nat]
  <2>1. db \in [Icao -> Nat]
    BY DEF PortInv, PortTypeOK
  <2>2. CASE Evict(i)
    BY <2>1, <2>2 DEF Evict
  <2>3. ASSUME NEW n \in Nat, Report(i, n) PROVE UNCHANGED <<portVars, hostVars>> /\ db' \in [Icao -> Nat]
    BY <2>1, <2>3 DEF Report
  <2>4. QED
    BY <2>2, <2>3
<1>2. PortTypeOK'
  BY <1>1 DEF PortInv, PortTypeOK, portVars, hostVars
<1>3. QED
  BY <1>1, <1>2, QuietStep DEF portVars, hostVars

\* PortInv is inductive.
THEOREM PortInvariance == PortSpec => []PortInv
<1>1. PortInv /\ [PortNext]_dataVars => PortInv'
  <2> SUFFICES ASSUME PortInv, [PortNext]_dataVars PROVE PortInv'
    OBVIOUS
  <2>1. CASE UNCHANGED dataVars
    BY <2>1 DEF dataVars, portVars, hostVars, PortInv, PortTypeOK, Owner, HalfLine, LinesWhole
  <2>2. CASE \E t \in Thread : Writes(t)
    BY <2>2, LockKeeps, FirstKeeps, SecondKeeps DEF Writes
  <2>3. QED
    BY <2>1, <2>2, PublishKeeps, AlertsKeep, HostKeeps, DatabaseKeeps DEF PortNext
<1>2. QED
  BY <1>1, PortInitInv, PTL DEF PortSpec

-----------------------------------------------------------------------------
(* The composition *)

LEMMA BridgeStepOrStutter == [TelemetryNext]_telemetryVars => [Next]_vars
<1> SUFFICES ASSUME [TelemetryNext]_telemetryVars PROVE [Next]_vars
  OBVIOUS
<1>1. CASE UNCHANGED telemetryVars
  BY <1>1 DEF telemetryVars
<1>2. CASE Notified
  BY <1>2 DEF Notified, Next
<1>3. CASE BridgeStep
  BY <1>3 DEF BridgeStep, Feed, Next, BridgeThread
<1>4. CASE Heard \/ RoundBegins \/ RoundGoesOn \/ Alerted \/ HostStep
  BY <1>4 DEF Heard, RoundBegins, RoundGoesOn, Alerted, HostStep
<1>5. CASE (\E i \in Icao : Reaped(i)) \/ (\E t \in Thread : PrintStep(t))
  BY <1>5 DEF Reaped, PrintStep
<1>6. QED
  BY <1>1, <1>2, <1>3, <1>4, <1>5 DEF TelemetryNext

LEMMA PortStepOrStutter ==
  ASSUME Types, [TelemetryNext]_telemetryVars PROVE [PortNext]_dataVars
<1>1. CASE UNCHANGED telemetryVars
  BY <1>1 DEF telemetryVars
<1>2. CASE Notified
  BY <1>2 DEF Notified
<1>3. CASE BridgeStep
  <2>1. CASE Feed
    BY <2>1, TelemetryAssumption DEF Feed, Refuse, Types, PortNext
  <2>2. QED
    BY <1>3, <2>1 DEF BridgeStep
<1>4. CASE Heard
  BY <1>4 DEF Heard, PortNext
<1>5. CASE RoundBegins \/ RoundGoesOn
  BY <1>5 DEF RoundBegins, RoundGoesOn, Publish, PortNext
<1>6. CASE Alerted \/ HostStep
  BY <1>6 DEF Alerted, HostStep, PortNext
<1>7. CASE \E i \in Icao : Reaped(i)
  BY <1>7 DEF Reaped, PortNext
<1>8. CASE \E t \in Thread : PrintStep(t)
  BY <1>8 DEF PrintStep, PortNext
<1>9. QED
  BY <1>1, <1>2, <1>3, <1>4, <1>5, <1>6, <1>7, <1>8 DEF TelemetryNext

\* The composition implements the bridge's specification.
THEOREM BridgeImplemented == TelemetrySpec => Spec
<1>1. TelemetryInit => Init
  BY DEF TelemetryInit
<1>2. QED
  BY <1>1, BridgeStepOrStutter, PTL DEF TelemetrySpec, Spec

\* The composition implements the data port's specification.
THEOREM PortImplemented == TelemetrySpec => PortSpec
<1>1. TelemetryInit => PortInit
  BY DEF TelemetryInit
<1>2. BridgeInv => Types
  BY DEF BridgeInv
<1>3. Types /\ [TelemetryNext]_telemetryVars => [PortNext]_dataVars
  BY PortStepOrStutter
<1>4. QED
  BY <1>1, <1>2, <1>3, BridgeImplemented, BridgeInvariance, PTL DEF TelemetrySpec, PortSpec

\* From notify_cb to bridge_thread_fn's upsert every frame submitted is accounted for:
\* dropped, queued, in hand, rejected for one reason or converted.
THEOREM Accounting == TelemetrySpec => []FramesAccounted
<1>1. BridgeInv => FramesAccounted
  BY DEF BridgeInv
<1>2. QED
  BY <1>1, BridgeImplemented, BridgeInvariance, PTL

\* bridge_thread_fn feeds each frame at most once and in the order of arrival, although
\* its output record survives a rejection.
THEOREM InOrder == TelemetrySpec => []FedInOrder
<1>1. BridgeInv => FedInOrder
  BY DEF BridgeInv
<1>2. QED
  BY <1>1, BridgeImplemented, BridgeInvariance, PTL

\* usb_serial_println: however tick, publisher, shell and host interleave, every line
\* the host reads is one line of one writer, apart from the one it opens the port into
\* or whose reading times out half way.
THEOREM WholeLines == TelemetrySpec => []LinesWhole
<1>1. PortInv => LinesWhole
  BY DEF PortInv
<1>2. QED
  BY <1>1, PortImplemented, PortInvariance, PTL

-----------------------------------------------------------------------------
(* The host's picture.  PictureForward rests on the order of the reports     *)
(* along the whole way: what the host shows of an aircraft is no newer than  *)
(* the row that waits to be printed, which is no newer than the record in    *)
(* the database; and all of them were fed before the frame in the bridge's   *)
(* hands.  It takes one row per aircraft, and rows of one snapshot only.     *)

Busy == at["workqueue"] \in {"lock", "first", "second"}

\* The rows the publisher has still to print.
Pending == s_snapshot \cup IF Busy THEN {line["workqueue"]} \ {Alert} ELSE {}

\* Report n of aircraft i has been in the database, or there is none.
Past(i, n) == n = 0 \/ IF i = Sim THEN \E k \in DOMAIN fed : n = fed[k] ELSE n = 1

OneRowEach ==
  /\ \A r, q \in s_snapshot : r.icao = q.icao => r = q
  /\ Busy /\ line["workqueue"] # Alert
       => \A q \in s_snapshot : q.icao # line["workqueue"].icao

RowsCurrent ==
  \A r \in Pending :
    /\ shown[r.icao] <= r.report
    /\ db[r.icao] # 0 => r.report <= db[r.icao]
    /\ Past(r.icao, r.report)

PictureCurrent ==
  \A i \in Icao :
    /\ db[i] # 0 => shown[i] <= db[i]
    /\ Past(i, shown[i]) /\ Past(i, db[i])

ForwardInv == line["shell"] = Alert /\ OneRowEach /\ RowsCurrent /\ PictureCurrent

PathInv == BridgeInv /\ PortInv /\ ForwardInv

LEMMA AlertApart == Alert \notin Row /\ \A r \in Row : r.icao \in Icao /\ r.report \in Nat \ {0}
<1>1. Alert.icao = "pair" /\ "pair" \notin Icao
  BY PortAssumption DEF Alert
<1>2. QED
  BY <1>1 DEF Row

LEMMA PendingRows == ASSUME PortInv PROVE Pending \subseteq Row
<1>1. line["workqueue"] \in Row \cup {Alert} /\ s_snapshot \subseteq Row
  BY DEF PortInv, PortTypeOK, Line, Thread
<1>2. QED
  BY <1>1 DEF Pending

LEMMA PathInitInv == TelemetryInit => ForwardInv
<1> SUFFICES ASSUME TelemetryInit PROVE ForwardInv
  OBVIOUS
<1>1. ~Busy /\ s_snapshot = {} /\ line["shell"] = Alert /\ Pending = {}
  BY DEF TelemetryInit, PortInit, Thread, Busy, Pending
<1>2. \A i \in Icao : db[i] = 0 /\ shown[i] = 0
  BY DEF TelemetryInit, PortInit
<1>3. QED
  BY <1>1, <1>2 DEF ForwardInv, OneRowEach, RowsCurrent, PictureCurrent, Past

\* Rows are only dropped or handed over; records and picture stay.
LEMMA RowsOnly ==
  ASSUME PathInv, UNCHANGED <<db, shown, fed>>, Pending' \subseteq Pending,
         line'["shell"] = Alert, OneRowEach'
  PROVE  ForwardInv'
<1>1. RowsCurrent'
  BY DEF PathInv, ForwardInv, RowsCurrent, Past
<1>2. PictureCurrent'
  BY DEF PathInv, ForwardInv, PictureCurrent, Past
<1>3. QED
  BY <1>1, <1>2 DEF ForwardInv

\* Nothing of the data port changes, and what was fed stays fed.
LEMMA PortIdle ==
  ASSUME PathInv, UNCHANGED dataVars, UNCHANGED fed PROVE ForwardInv'
  BY DEF PathInv, ForwardInv, dataVars, portVars, hostVars, OneRowEach, RowsCurrent, PictureCurrent,
         Past, Pending, Busy

\* bridge_thread_fn's upsert is newer than everything the path has seen of the sim.
LEMMA FeedForward == ASSUME PathInv, Feed PROVE ForwardInv'
<1>1. /\ fed' = Append(fed, out) /\ (db' = [db EXCEPT ![Sim] = out] \/ db' = db)
      /\ UNCHANGED <<s_snapshot, at, line, g_tx_mutex, dtr, rx, shown, cut, torn>>
      /\ thread = "upsert"
  BY DEF Feed, Upsert, Report, Refuse, dataVars, portVars, hostVars
<1>2. fed \in Seq(Nat) /\ out \in Nat /\ db \in [Icao -> Nat] /\ shown \in [Icao -> Nat] /\ Sim \in Icao
  BY TelemetryAssumption DEF PathInv, BridgeInv, Types, PortInv, PortTypeOK
<1>3. \A k \in DOMAIN fed : fed[k] < out
  BY <1>1 DEF PathInv, BridgeInv, HandOrder, Converted
<1>4. /\ \A k \in DOMAIN fed : k \in DOMAIN fed' /\ fed'[k] = fed[k]
      /\ \E k \in DOMAIN fed' : fed'[k] = out
  BY <1>1, <1>2, AppendFacts
<1>5. ASSUME NEW i, NEW n, Past(i, n) PROVE Past(i, n)'
  BY <1>4, <1>5 DEF Past
<1>6. ASSUME NEW n \in Nat, Past(Sim, n) PROVE n <= out
  BY <1>2, <1>3, <1>6 DEF Past
<1>7. Pending' = Pending /\ OneRowEach' /\ line'["shell"] = Alert
  BY <1>1 DEF PathInv, ForwardInv, Pending, Busy, OneRowEach
<1>8. RowsCurrent'
  <2> SUFFICES ASSUME NEW r \in Pending
               PROVE  /\ shown[r.icao] <= r.report
                      /\ db'[r.icao] # 0 => r.report <= db'[r.icao]
                      /\ Past(r.icao, r.report)'
    BY <1>1, <1>7 DEF RowsCurrent
  <2>1. r.icao \in Icao /\ r.report \in Nat
    BY PendingRows, AlertApart DEF PathInv
  <2>2. shown[r.icao] <= r.report /\ Past(r.icao, r.report) /\ (db[r.icao] # 0 => r.report <= db[r.icao])
    BY DEF PathInv, ForwardInv, RowsCurrent
  <2>3. db'[r.icao] = db[r.icao] \/ (r.icao = Sim /\ db'[r.icao] = out)
    BY <1>1, <1>2, <2>1
  <2>4. r.icao = Sim => r.report <= out
    BY <1>6, <2>1, <2>2
  <2>5. QED
    BY <1>5, <2>2, <2>3, <2>4
<1>9. PictureCurrent'
  <2> SUFFICES ASSUME NEW i \in Icao
               PROVE  /\ db'[i] # 0 => shown[i] <= db'[i]
                      /\ Past(i, shown[i])' /\ Past(i, db[i])'
    BY <1>1 DEF PictureCurrent
  <2>1. (db[i] # 0 => shown[i] <= db[i]) /\ Past(i, shown[i]) /\ Past(i, db[i]) /\ shown[i] \in Nat
    BY <1>2 DEF PathInv, ForwardInv, PictureCurrent
  <2>2. db'[i] = db[i] \/ (i = Sim /\ db'[i] = out)
    BY <1>1, <1>2
  <2>3. i = Sim => shown[i] <= out
    BY <1>6, <2>1
  <2>4. QED
    BY <1>1, <1>4, <2>1, <2>2, <2>3 DEF Past
<1>10. QED
  BY <1>7, <1>8, <1>9 DEF ForwardInv

\* Another aircraft's first report, or an eviction.
LEMMA RecordForward ==
  ASSUME PathInv, NEW i \in Icao, NEW n \in {0, 1}, n = 1 => i # Sim,
         db' = [db EXCEPT ![i] = n], UNCHANGED <<portVars, hostVars, fed>>
  PROVE  ForwardInv'
<1>1. db \in [Icao -> Nat] /\ shown \in [Icao -> Nat]
  BY DEF PathInv, PortInv, PortTypeOK
<1>2. Pending' = Pending /\ OneRowEach' /\ line'["shell"] = Alert /\ shown' = shown /\ fed' = fed
  BY DEF PathInv, ForwardInv, Pending, Busy, OneRowEach, portVars, hostVars
<1>3. \A j \in Icao : db'[j] = IF j = i THEN n ELSE db[j]
  BY <1>1
<1>4. RowsCurrent'
  <2> SUFFICES ASSUME NEW r \in Pending
               PROVE  /\ shown[r.icao] <= r.report
                      /\ db'[r.icao] # 0 => r.report <= db'[r.icao]
                      /\ Past(r.icao, r.report)
    BY <1>2 DEF RowsCurrent, Past
  <2>1. r.icao \in Icao /\ r.report \in Nat \ {0}
    BY PendingRows, AlertApart DEF PathInv
  <2>2. shown[r.icao] <= r.report /\ Past(r.icao, r.report) /\ (db[r.icao] # 0 => r.report <= db[r.icao])
    BY DEF PathInv, ForwardInv, RowsCurrent
  <2>3. r.icao = i /\ n = 1 => r.report = 1
    BY <2>1, <2>2 DEF Past
  <2>4. QED
    BY <1>3, <2>1, <2>2, <2>3
<1>5. PictureCurrent'
  <2> SUFFICES ASSUME NEW j \in Icao
               PROVE  /\ db'[j] # 0 => shown[j] <= db'[j]
                      /\ Past(j, shown[j]) /\ Past(j, db'[j])
    BY <1>2 DEF PictureCurrent, Past
  <2>1. (db[j] # 0 => shown[j] <= db[j]) /\ Past(j, shown[j]) /\ Past(j, db[j]) /\ shown[j] \in Nat
    BY <1>1 DEF PathInv, ForwardInv, PictureCurrent
  <2>2. j = i /\ n = 1 => shown[j] <= 1
    BY <2>1 DEF Past
  <2>3. j = i => Past(j, n)
    BY DEF Past
  <2>4. QED
    BY <1>3, <2>1, <2>2, <2>3
<1>6. QED
  BY <1>2, <1>4, <1>5 DEF ForwardInv

LEMMA AtTyped == ASSUME PortInv PROVE at \in [Thread -> {"idle", "rows", "lock", "first", "second"}]
  BY DEF PortInv, PortTypeOK

\* The snapshot has one row for each aircraft, and none is pending from before.
LEMMA StartForward == ASSUME PathInv, PublishStart, UNCHANGED fed PROVE ForwardInv'
<1>1. /\ UNCHANGED <<db, shown, line, fed>> /\ s_snapshot' = Rows /\ ~Busy'
  BY AtTyped DEF PathInv, PublishStart, Goto, hostVars, Busy, Thread
<1>2. Pending' = Rows /\ line'["shell"] = Alert
  BY <1>1 DEF Pending, PathInv, ForwardInv
<1>3. OneRowEach'
  BY <1>1 DEF OneRowEach, Rows, Known
<1>4. db \in [Icao -> Nat]
  BY DEF PathInv, PortInv, PortTypeOK
<1>5. RowsCurrent'
  <2> SUFFICES ASSUME NEW i \in Icao, db[i] # 0
               PROVE  shown[i] <= db[i] /\ db[i] <= db[i] /\ Past(i, db[i])
    BY <1>1, <1>2 DEF RowsCurrent, Rows, Known, Past
  <2>1. QED
    BY <1>4 DEF PathInv, ForwardInv, PictureCurrent
<1>6. PictureCurrent'
  BY <1>1 DEF PathInv, ForwardInv, PictureCurrent, Past
<1>7. QED
  BY <1>2, <1>3, <1>5, <1>6 DEF ForwardInv

\* A row is printed, skipped for want of a host or of room, or was the last.
LEMMA RowForward ==
  ASSUME PathInv, UNCHANGED fed,
         PublishEnd \/ \E r \in s_snapshot : PublishRow(r) \/ FormatError(r)
  PROVE  ForwardInv'
<1>1. line \in [Thread -> Line] /\ s_snapshot \subseteq Row
  BY DEF PathInv, PortInv, PortTypeOK
<1>2. CASE PublishEnd
  <2>1. s_snapshot' = {} /\ ~Busy' /\ UNCHANGED <<db, shown, line>>
    BY <1>2, AtTyped DEF PathInv, PublishEnd, Goto, Busy, Thread, hostVars
  <2>2. Pending' = {} /\ OneRowEach' /\ line'["shell"] = Alert
    BY <2>1 DEF Pending, OneRowEach, PathInv, ForwardInv
  <2>3. QED
    BY <2>1, <2>2, RowsOnly
<1>3. ASSUME NEW r \in s_snapshot, FormatError(r) PROVE ForwardInv'
  <2>1. s_snapshot' = s_snapshot \ {r} /\ UNCHANGED <<db, shown, line, at>>
    BY <1>3 DEF FormatError, hostVars
  <2>2. Pending' \subseteq Pending /\ OneRowEach' /\ line'["shell"] = Alert
    BY <2>1 DEF Pending, Busy, OneRowEach, PathInv, ForwardInv
  <2>3. QED
    BY <2>1, <2>2, RowsOnly
<1>4. ASSUME NEW r \in s_snapshot, PublishRow(r) PROVE ForwardInv'
  <2>1. /\ s_snapshot' = s_snapshot \ {r} /\ UNCHANGED <<db, shown>>
        /\ line' = [line EXCEPT !["workqueue"] = r] \/ (~Busy' /\ line' = line)
    <3>1. /\ s_snapshot' = s_snapshot \ {r} /\ UNCHANGED <<db, shown>>
          /\ \/ line' = [line EXCEPT !["workqueue"] = r]
             \/ line' = line /\ at' = [at EXCEPT !["workqueue"] = "rows"]
      BY <1>4 DEF PublishRow, Println, Goto, hostVars
    <3>2. at' = [at EXCEPT !["workqueue"] = "rows"] => ~Busy'
      BY AtTyped DEF PathInv, Busy, Thread
    <3>3. QED
      BY <3>1, <3>2
  <2>2. line'["shell"] = Alert
    BY <1>1, <2>1 DEF PathInv, ForwardInv, Thread
  <2>3. Busy' => line'["workqueue"] = r
    BY <1>1, <2>1 DEF Thread
  <2>4. Pending' \subseteq Pending
    BY <2>1, <2>3 DEF Pending
  <2>5. OneRowEach'
    BY <2>1, <2>3 DEF OneRowEach, PathInv, ForwardInv
  <2>6. QED
    BY <2>1, <2>2, <2>4, <2>5, RowsOnly
<1>5. QED
  BY <1>2, <1>3, <1>4

LEMMA AlertForward == ASSUME PathInv, UNCHANGED fed, Alerts PROVE ForwardInv'
<1>1. line \in [Thread -> Line]
  BY DEF PathInv, PortInv, PortTypeOK
<1>2. PICK t \in Thread : EmitAlert(t)
  BY DEF Alerts
<1>3. /\ UNCHANGED <<db, shown, s_snapshot>>
      /\ line' = [line EXCEPT ![t] = Alert] \/ (line' = line /\ (Busy' <=> Busy))
      /\ t = "shell" => (Busy' <=> Busy)
  <2>1. /\ UNCHANGED <<db, shown, s_snapshot>> /\ at[t] = "idle"
        /\ \/ line' = [line EXCEPT ![t] = Alert] /\ at' = [at EXCEPT ![t] = "lock"]
           \/ line' = line /\ at' = [at EXCEPT ![t] = "idle"]
    BY <1>2 DEF EmitAlert, Println, Goto, hostVars
  <2>2. at' = [at EXCEPT ![t] = "idle"] => (Busy' <=> Busy)
    BY <2>1, AtTyped DEF PathInv, Busy, Thread
  <2>3. t = "shell" => (Busy' <=> Busy)
    BY <2>1, AtTyped DEF PathInv, Busy, Thread
  <2>4. QED
    BY <2>1, <2>2, <2>3
<1>4. line'["shell"] = Alert
  BY <1>1, <1>3 DEF PathInv, ForwardInv, Thread
<1>5. line'["workqueue"] = Alert \/ (line'["workqueue"] = line["workqueue"] /\ (Busy' <=> Busy))
  BY <1>1, <1>3 DEF Thread
<1>6. Pending' \subseteq Pending /\ OneRowEach'
  BY <1>3, <1>5 DEF Pending, OneRowEach, PathInv, ForwardInv
<1>7. QED
  BY <1>3, <1>4, <1>6, RowsOnly

\* A new host starts with an empty picture.
LEMMA HostForward == ASSUME PathInv, UNCHANGED fed, Host PROVE ForwardInv' /\ (dtr /\ dtr' => shown' = shown)
<1>1. UNCHANGED <<db, s_snapshot, at, line>> /\ (shown' = shown \/ (shown' = [i \in Icao |-> 0] /\ ~dtr'))
  <2>1. CASE OpenPort
    BY <2>1 DEF OpenPort, portVars
  <2>2. CASE ClosePort
    BY <2>2 DEF ClosePort, portVars
  <2>3. CASE ReadTimeout
    BY <2>3 DEF ReadTimeout, portVars
  <2>4. QED
    BY <2>1, <2>2, <2>3 DEF Host
<1>2. Pending' = Pending /\ OneRowEach' /\ line'["shell"] = Alert
  BY <1>1 DEF Pending, Busy, OneRowEach, PathInv, ForwardInv
<1>3. CASE shown' = shown
  BY <1>1, <1>2, <1>3, RowsOnly
<1>4. CASE shown' = [i \in Icao |-> 0] /\ ~dtr'
  <2>1. db \in [Icao -> Nat]
    BY DEF PathInv, PortInv, PortTypeOK
  <2>2. \A i \in Icao : shown'[i] = 0
    BY <1>4
  <2>3. RowsCurrent'
    <3> SUFFICES ASSUME NEW r \in Pending
                 PROVE  shown'[r.icao] <= r.report /\ (db[r.icao] # 0 => r.report <= db[r.icao])
                        /\ Past(r.icao, r.report)
      BY <1>1, <1>2 DEF RowsCurrent, Past
    <3>1. r.icao \in Icao /\ r.report \in Nat \ {0}
      BY PendingRows, AlertApart DEF PathInv
    <3>2. QED
      BY <2>2, <3>1 DEF PathInv, ForwardInv, RowsCurrent
  <2>4. PictureCurrent'
    BY <1>1, <2>1, <2>2 DEF PathInv, ForwardInv, PictureCurrent, Past
  <2>5. QED
    BY <1>2, <1>4, <2>3, <2>4 DEF ForwardInv
<1>5. QED
  BY <1>1, <1>3, <1>4

\* A line that is printed to its end brings the picture up to its row.
LEMMA SecondForward ==
  ASSUME PathInv, UNCHANGED fed, NEW t \in Thread, PrintSecond(t)
  PROVE  ForwardInv' /\ \A i \in Icao : shown'[i] >= shown[i]
<1> DEFINE halves == Append(rx, <<line[t], 2>>)
<1>1. /\ shown \in [Icao -> Nat] /\ db \in [Icao -> Nat] /\ line[t] \in Line
      /\ <<line[t], 2>> \in Line \X {1, 2} /\ rx \in Seq(Line \X {1, 2})
  BY DEF PathInv, PortInv, PortTypeOK
<1>2. halves[Len(halves)][1] = line[t]
  BY <1>1
<1>3. UNCHANGED <<db, s_snapshot, line>> /\ at[t] = "second" /\ ((\E full \in BOOLEAN : ReadLine(halves, full)) \/ shown' = shown)
  BY DEF PrintSecond, PollOut
<1>4. shown' = shown \/ (line[t] # Alert /\ shown' = [shown EXCEPT ![line[t].icao] = line[t].report])
  BY <1>2, <1>3 DEF ReadLine
<1>5. /\ t = "workqueue" => Busy /\ ~Busy'
      /\ t = "shell" => (Busy' <=> Busy) /\ line[t] = Alert
      /\ line'["shell"] = Alert
  <2>1. \E place \in {"idle", "rows"} : at' = [at EXCEPT ![t] = place]
    BY DEF PrintSecond, Return, Goto
  <2>2. QED
    BY <1>3, <2>1, AtTyped DEF PathInv, ForwardInv, Busy, Thread
<1>6. Pending' \subseteq Pending /\ OneRowEach'
  BY <1>3, <1>5 DEF Pending, OneRowEach, PathInv, ForwardInv, Thread
<1>7. CASE shown' = shown
  BY <1>1, <1>3, <1>5, <1>6, <1>7, RowsOnly
<1>8. CASE line[t] # Alert /\ shown' = [shown EXCEPT ![line[t].icao] = line[t].report]
  <2> DEFINE p == line[t]
  <2>1. t = "workqueue" /\ p \in Pending /\ Pending' = s_snapshot /\ p \in Row
    BY <1>1, <1>3, <1>5, <1>8 DEF Thread, Pending, Line
  <2>2. p.icao \in Icao /\ p.report \in Nat
    BY <2>1, AlertApart
  <2>3. /\ shown[p.icao] <= p.report /\ (db[p.icao] # 0 => p.report <= db[p.icao])
        /\ Past(p.icao, p.report)
    BY <2>1 DEF PathInv, ForwardInv, RowsCurrent
  <2>4. \A i \in Icao : shown'[i] = IF i = p.icao THEN p.report ELSE shown[i]
    BY <1>1, <1>8, <2>2
  <2>5. \A q \in s_snapshot : q.icao # p.icao
    BY <1>5, <1>8, <2>1 DEF PathInv, ForwardInv, OneRowEach
  <2>6. RowsCurrent'
    <3> SUFFICES ASSUME NEW r \in s_snapshot
                 PROVE  shown'[r.icao] <= r.report /\ (db[r.icao] # 0 => r.report <= db[r.icao])
                        /\ Past(r.icao, r.report)
      BY <1>3, <2>1 DEF RowsCurrent, Past
    <3>1. r \in Pending /\ r.icao \in Icao
      BY PendingRows, AlertApart DEF PathInv, Pending
    <3>2. shown'[r.icao] = shown[r.icao]
      BY <2>4, <2>5, <3>1
    <3>3. QED
      BY <3>1, <3>2 DEF PathInv, ForwardInv, RowsCurrent
  <2>7. PictureCurrent'
    <3> SUFFICES ASSUME NEW i \in Icao
                 PROVE  (db[i] # 0 => shown'[i] <= db[i]) /\ Past(i, shown'[i]) /\ Past(i, db[i])
      BY <1>3 DEF PictureCurrent, Past
    <3>1. (db[i] # 0 => shown[i] <= db[i]) /\ Past(i, shown[i]) /\ Past(i, db[i])
      BY DEF PathInv, ForwardInv, PictureCurrent
    <3>2. CASE i = p.icao
      BY <2>3, <2>4, <3>1, <3>2
    <3>3. CASE i # p.icao
      BY <2>4, <3>1, <3>3
    <3>4. QED
      BY <3>2, <3>3
  <2>8. ASSUME NEW i \in Icao PROVE shown'[i] >= shown[i]
    <3>1. shown[i] \in Nat
      BY <1>1
    <3>2. QED
      BY <2>2, <2>3, <2>4, <3>1
  <2>9. QED
    BY <1>5, <1>6, <2>6, <2>7, <2>8 DEF ForwardInv
<1>9. QED
  BY <1>4, <1>7, <1>8

LEMMA FirstForward ==
  ASSUME PathInv, UNCHANGED fed, NEW t \in Thread, Lock(t) \/ PrintFirst(t)
  PROVE  ForwardInv' /\ shown' = shown
<1>1. /\ UNCHANGED <<db, s_snapshot, line, shown>>
      /\ at[t] \in {"lock", "first"}
      /\ \E place \in {"first", "second"} : at' = [at EXCEPT ![t] = place]
  BY DEF Lock, PrintFirst, PollOut, Goto, hostVars
<1>2. Busy' <=> Busy
  BY <1>1, AtTyped DEF PathInv, Busy, Thread
<1>3. Pending' = Pending /\ OneRowEach' /\ line'["shell"] = Alert
  BY <1>1, <1>2 DEF Pending, OneRowEach, PathInv, ForwardInv
<1>4. QED
  BY <1>1, <1>3, RowsOnly

\* Every step keeps the order of the reports, and turns the picture back for no
\* aircraft while the port stays open.
LEMMA StepForward ==
  ASSUME PathInv, [TelemetryNext]_telemetryVars
  PROVE  ForwardInv' /\ [dtr /\ dtr' => \A i \in Icao : shown'[i] >= shown[i]]_dataVars
<1> DEFINE Forward == dtr /\ dtr' => \A i \in Icao : shown'[i] >= shown[i]
<1>1. shown' = shown => Forward
  BY DEF PathInv, PortInv, PortTypeOK
<1>2. CASE UNCHANGED telemetryVars
  BY <1>2, PortIdle DEF telemetryVars, vars
<1>3. CASE Notified
  BY <1>3, PortIdle DEF Notified, Submit
<1>4. CASE BridgeStep
  <2>1. CASE Feed
    <3>1. shown' = shown
      BY <2>1 DEF Feed, Report, Refuse, dataVars, hostVars
    <3>2. QED
      BY <1>1, <2>1, <3>1, FeedForward
  <2>2. CASE (Get \/ Reject \/ Convert \/ Count) /\ UNCHANGED <<dataVars, gone>>
    BY <2>2, PortIdle DEF Get, Reject, Convert, Count
  <2>3. QED
    BY <1>4, <2>1, <2>2 DEF BridgeStep
<1>5. CASE Heard
  <2>1. PICK i \in Icao \ {Sim} : Report(i, 1)
    BY <1>5 DEF Heard
  <2>2. db' = [db EXCEPT ![i] = 1] /\ UNCHANGED <<portVars, hostVars, fed>>
    BY <1>5, <2>1 DEF Heard, Report, vars
  <2>3. ForwardInv'
    BY <2>2, RecordForward
  <2>4. QED
    BY <1>1, <2>2, <2>3 DEF hostVars
<1>6. ASSUME NEW i \in Icao, Reaped(i) PROVE ForwardInv' /\ Forward
  <2>1. db' = [db EXCEPT ![i] = 0] /\ UNCHANGED <<portVars, hostVars, fed>>
    BY <1>6 DEF Reaped, Evict, vars
  <2>2. ForwardInv'
    <3>1. 0 \in {0, 1} /\ 0 # 1
      OBVIOUS
    <3>2. QED
      BY <2>1, <3>1, RecordForward
  <2>3. QED
    BY <1>1, <2>1, <2>2 DEF hostVars
<1>7. ASSUME NEW t \in Thread, PrintStep(t) PROVE ForwardInv' /\ Forward
  <2>1. Writes(t) /\ UNCHANGED fed
    BY <1>7 DEF PrintStep, vars
  <2>2. QED
    BY <1>1, <2>1, FirstForward, SecondForward DEF Writes
<1>8. CASE RoundBegins \/ RoundGoesOn \/ Alerted
  <2>1. UNCHANGED <<fed, shown>>
    BY <1>8 DEF RoundBegins, RoundGoesOn, Alerted, PublishStart, PublishEnd, PublishRow, FormatError,
                Alerts, EmitAlert, Println, hostVars, vars
  <2>2. ForwardInv'
    BY <1>8, <2>1, StartForward, RowForward, AlertForward DEF RoundBegins, RoundGoesOn, Alerted
  <2>3. QED
    BY <1>1, <2>1, <2>2
<1>9. CASE HostStep
  <2>1. Host /\ UNCHANGED fed
    BY <1>9 DEF HostStep, vars
  <2>2. QED
    BY <1>1, <2>1, HostForward
<1>10. QED
  BY <1>2, <1>3, <1>4, <1>5, <1>6, <1>7, <1>8, <1>9 DEF TelemetryNext

\* The reports stay in order from bridge_thread_fn to the host's picture.
THEOREM PathInvariance == TelemetrySpec => []PathInv
<1>1. TelemetryInit => ForwardInv
  BY PathInitInv
<1>2. PathInv /\ [TelemetryNext]_telemetryVars => ForwardInv'
  BY StepForward
<1>3. TelemetrySpec => [](BridgeInv /\ PortInv)
  BY BridgeImplemented, BridgeInvariance, PortImplemented, PortInvariance, PTL
<1>4. PathInv <=> (BridgeInv /\ PortInv) /\ ForwardInv
  BY DEF PathInv
<1>5. QED
  BY <1>1, <1>2, <1>3, <1>4, PTL DEF TelemetrySpec

\* While a host has the port open, the publisher's work_handler never turns an aircraft
\* of its picture back to an older report, whatever is evicted, heard again or lost.
THEOREM PictureNeverBack == TelemetrySpec => PictureForward
<1>1. PathInv /\ [TelemetryNext]_telemetryVars
        => [dtr /\ dtr' => \A i \in Icao : shown'[i] >= shown[i]]_dataVars
  BY StepForward
<1>2. QED
  BY <1>1, PathInvariance, PTL DEF TelemetrySpec, PictureForward
=============================================================================
