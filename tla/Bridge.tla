------------------------------- MODULE Bridge -------------------------------
(***************************************************************************)
(* The path of the sim's position frames from the BLE notification to the  *)
(* database: notify_cb (controller/src/ble), and the queue, the validation *)
(* and the thread of controller/src/bridge.                                *)
(*                                                                         *)
(* A frame is its number in the order of arrival and the first test of     *)
(* bridge_convert that it fails, "ok" if it passes them all.  The          *)
(* callback's thread is cooperative and preempts the bridge's anywhere.    *)
(***************************************************************************)
EXTENDS Integers, Sequences

CONSTANTS
  BRIDGE_QUEUE_DEPTH,
  Verdict,             \* what bridge_convert can find in this instance
  MaxFrames            \* bound: notifications of the full length

ASSUME BridgeAssumption ==
  /\ BRIDGE_QUEUE_DEPTH \in Nat \ {0}
  /\ Verdict \subseteq {"ok", "rej_source", "rej_icao", "rej_latlon"}
  /\ MaxFrames \in Nat

VARIABLES
  bridge_msgq,
  thread,              \* the bridge's thread: "get", "convert", "count" or "upsert"
  in,                  \* its frame
  out,                 \* the number of the frame it converted last, 0 at first
  stats,               \* the bridge's counters
  fed                  \* numbers of the frames fed to the database, in order

vars == <<bridge_msgq, thread, in, out, stats, fed>>

Frame == [id : 1 .. MaxFrames, verdict : Verdict]

Counter == {"submitted", "drops", "converted", "rej_source", "rej_icao", "rej_latlon"}

\* Counters, queue and thread state of the bridge have their types (bridge.c).
TypeOK ==
  /\ bridge_msgq \in Seq(Frame) /\ Len(bridge_msgq) <= BRIDGE_QUEUE_DEPTH
  /\ thread \in {"get", "convert", "count", "upsert"}
  /\ thread # "get" => in \in Frame
  /\ out \in 0 .. MaxFrames
  /\ stats \in [Counter -> 0 .. MaxFrames]
  /\ fed \in Seq(1 .. MaxFrames)

Init ==
  /\ bridge_msgq = <<>> /\ thread = "get" /\ in = <<>> /\ out = 0
  /\ stats = [c \in Counter |-> 0]
  /\ fed = <<>>

Counted(c) == [stats EXCEPT ![c] = @ + 1]

-----------------------------------------------------------------------------
\* Does k_msgq_put find room?
Room == Len(bridge_msgq) < BRIDGE_QUEUE_DEPTH

\* bridge_submit_frame
Enqueue(f) ==
  \/ /\ Room
     /\ bridge_msgq' = Append(bridge_msgq, f) /\ stats' = Counted("submitted")
  \/ /\ ~Room
     /\ stats' = [stats EXCEPT !["submitted"] = @ + 1, !["drops"] = @ + 1]
     /\ UNCHANGED bridge_msgq

\* notify_cb on a frame of the right length; others are counted and dropped there.
Submit(verdict) ==
  /\ stats["submitted"] < MaxFrames
  /\ Enqueue([id |-> stats["submitted"] + 1, verdict |-> verdict])
  /\ UNCHANGED <<thread, in, out, fed>>

\* bridge_thread_fn: k_msgq_get, ...
Get ==
  /\ thread = "get" /\ bridge_msgq # <<>>
  /\ in' = Head(bridge_msgq) /\ bridge_msgq' = Tail(bridge_msgq)
  /\ thread' = "convert"
  /\ UNCHANGED <<out, stats, fed>>

SlipReject ==
  /\ thread = "convert" /\ in.verdict # "ok"
  /\ stats' = Counted(in.verdict)
  /\ thread' = "upsert"
  /\ UNCHANGED <<bridge_msgq, in, out, fed>>

\* ... bridge_convert refuses the frame and counts why, or ...
Reject ==
  /\ thread = "convert" /\ in.verdict # "ok"
  /\ stats' = Counted(in.verdict)
  /\ thread' = "get"
  /\ UNCHANGED <<bridge_msgq, in, out, fed>>

Convert ==
  /\ thread = "convert" /\ in.verdict = "ok"
  /\ out' = in.id
  /\ thread' = "count"
  /\ UNCHANGED <<bridge_msgq, in, stats, fed>>

SlipCount ==
  /\ thread = "count"
  /\ thread' = "upsert"
  /\ UNCHANGED <<bridge_msgq, in, out, stats, fed>>

\* ... it is counted and ...
Count ==
  /\ thread = "count"
  /\ stats' = Counted("converted")
  /\ thread' = "upsert"
  /\ UNCHANGED <<bridge_msgq, in, out, fed>>

\* ... fed to the database.
Upsert ==
  /\ thread = "upsert"
  /\ fed' = Append(fed, out)
  /\ thread' = "get"
  /\ UNCHANGED <<bridge_msgq, in, out, stats>>

BridgeThread == Get \/ Reject \/ Convert \/ Count \/ Upsert

Next == (\E v \in Verdict : Submit(v)) \/ BridgeThread

Spec == Init /\ [][Next]_vars

-----------------------------------------------------------------------------
(* Safety *)

InHand == IF thread \in {"convert", "count"} THEN 1 ELSE 0

\* Every frame submitted is accounted for: dropped, queued, in the thread's hands,
\* rejected for one reason, or converted.
FramesAccounted ==
  stats["submitted"] =
    stats["drops"] + Len(bridge_msgq) + InHand + stats["converted"]
      + stats["rej_source"] + stats["rej_icao"] + stats["rej_latlon"]

\* The database is fed each frame at most once and in the order of arrival, and
\* never the frame before a rejected one over again.
FedInOrder == \A i, j \in DOMAIN fed : i < j => fed[i] < fed[j]

\* A valid frame in the queue.
Queued(n) == \E i \in DOMAIN bridge_msgq :
               bridge_msgq[i].id = n /\ bridge_msgq[i].verdict = "ok"
=============================================================================
