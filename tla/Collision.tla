----------------------------- MODULE Collision ------------------------------
(***************************************************************************)
(* The collision detector (controller/src/collision): the 200 ms work      *)
(* handler that classifies every pair of aircraft, the table of tracked    *)
(* pairs it keeps, the frames it sends to the SIM over BLE and to the host *)
(* over USB, and the shell's ghost, crash and diversion commands.          *)
(*                                                                         *)
(* What the geometry decides (classify, the vertical gate, the CRASH       *)
(* upgrade, pick_diversion) is a free choice of a level and a diversion.   *)
(* Addresses are numbers, so that strcmp is <.  Deadlines are kept as      *)
(* distances from the present: `since` is now - last_ble_send_ms,          *)
(* saturating past RESEND_MS, and `lock` is crash_until_ms - now or 0.     *)
(*                                                                         *)
(* The work queue's thread is cooperative and outranks the shell's: the    *)
(* database may change while the handler waits for its mutex, but no shell *)
(* command runs inside the handler, whereas the handler may run between    *)
(* any two statements of a shell command, and so between two rows that the *)
(* shell's tracked_remove moves down.  The table is written s_tracked, its *)
(* first s_tracked_n rows, and `beyond`, what memory holds above them while *)
(* the shell is in tracked_remove.                                         *)
(***************************************************************************)
EXTENDS Integers, Sequences

CONSTANTS
  Icao,          \* addresses, a set of numbers
  Sim,           \* the aircraft that reports over BLE
  Ghost,         \* GHOST_ICAO
  Missile,       \* MISSILE_ICAO
  Diversion,     \* what pick_diversion can suggest
  MAX_TRACKED,
  RESEND_MS,     \* 3 s between the BLE frames of a pair
  CRASH_LOCK_MS, \* 15 s during which a crashed pair is left alone
  Verdict,       \* the levels above CLEAR that the geometry yields in this instance
  Operator       \* the commands the operator may enter in this instance

ASSUME CollisionAssumption ==
  /\ Icao \subseteq Nat
  /\ Sim \in Icao /\ Ghost \in Nat
  /\ "ghost" \in Operator => Ghost \in Icao
  /\ MAX_TRACKED \in Nat \ {0}
  /\ RESEND_MS \in Nat /\ CRASH_LOCK_MS \in Nat \ {0}
  /\ "LEFT" \in Diversion /\ "" \notin Diversion
  /\ Verdict \subseteq {"ADVISORY", "WARNING", "CRASH"}
  /\ Operator \subseteq {"ghost", "crash", "diversion"}

VARIABLES
  db,                \* the aircraft in the database
  s_snap,            \* the aircraft of this tick's snapshot
  s_tracked,         \* the tracked pairs, s_tracked_n of them
  beyond,            \* the rows above them, while the shell moves rows
  s_pair_diversion,  \* index -> cached diversion
  handler,           \* "idle", "pairs" or "sweep": where the work handler is
  todo,              \* pairs of the snapshot not yet classified
  seen,              \* indices marked in this tick
  row,               \* the sweep's loop index
  damage,            \* history: 2 after a tick inside the shell's tracked_remove, then
                     \* 1 until the ticks have put the table right, and 0
  s_ghost_active,
  keepalive,         \* is the ghost's keep-alive work scheduled?
  shell,             \* where the shell's ghost command is
  index,             \* its loop index
  at, held,          \* the loop index of its tracked_remove, and s_tracked_n as loaded there
  out,               \* calls this step makes: frames to the SIM, missile_cancel
  host,              \* pairs whose last JSON frame was not CLEAR
  orphan             \* history: alerts whose row a command dropped or never made

trackVars == <<s_tracked, beyond, s_pair_diversion>>
tickVars  == <<s_snap, handler, todo, seen, row, damage>>
ghostVars == <<s_ghost_active, keepalive, shell, index, at, held>>
hostVars  == <<host, orphan>>
vars == <<db, trackVars, tickVars, ghostVars, out, hostVars>>

Level == {"CLEAR", "ADVISORY", "WARNING", "CRASH"}

\* pair_key: the two addresses in lexicographic order.
Pair == {p \in Icao \X Icao : p[1] < p[2]}

PairKey(a, b) == IF a <= b THEN <<a, b>> ELSE <<b, a>>

PairsOf(S) == {p \in Pair : p[1] \in S /\ p[2] \in S}

Names(p, i) == p[1] = i \/ p[2] = i

Track == [pair : Pair, level : Level \ {"CLEAR"}, diversion : Diversion \cup {""},
          since : 0 .. (RESEND_MS + 1), lock : 0 .. CRASH_LOCK_MS]

Call == [type : {"COLLISION", "CRASH"}, other : Icao]
          \cup [type : {"DIVERSION"}, other : Icao, d : Diversion]
          \cup [type : {"missile_cancel"}]

\* The rows, locks, caches and tick cursor of the detector have their types (collision.c).
TypeOK ==
  /\ db \subseteq Icao /\ s_snap \subseteq Icao
  /\ s_tracked \in Seq(Track) /\ Len(s_tracked) <= MAX_TRACKED
  /\ beyond \in Seq(Track)
  /\ s_pair_diversion \in [1 .. MAX_TRACKED -> Diversion]
  /\ handler \in {"idle", "pairs", "sweep"}
  /\ todo \subseteq Pair
  /\ seen \subseteq 1 .. MAX_TRACKED
  /\ row \in 0 .. MAX_TRACKED /\ damage \in 0 .. 2
  /\ s_ghost_active \in BOOLEAN /\ keepalive \in BOOLEAN
  /\ shell \in {"idle", "scan", "drop", "shift", "upsert", "arm", "schedule"}
  /\ index \in 0 .. MAX_TRACKED /\ at \in 0 .. MAX_TRACKED /\ held \in 0 .. MAX_TRACKED
  /\ out \in Seq(Call)
  /\ host \subseteq Pair /\ orphan \subseteq Pair

Init ==
  /\ db = {} /\ s_snap = {}
  /\ s_tracked = <<>> /\ beyond = <<>>
  /\ s_pair_diversion = [k \in 1 .. MAX_TRACKED |-> "LEFT"]
  /\ handler = "idle" /\ todo = {} /\ seen = {} /\ row = 0 /\ damage = 0
  /\ s_ghost_active = FALSE /\ keepalive = FALSE
  /\ shell = "idle" /\ index = 0 /\ at = 0 /\ held = 0
  /\ out = <<>>
  /\ host = {} /\ orphan = {}

-----------------------------------------------------------------------------
(* The table of tracked pairs. *)

TrackedPairs == {s_tracked[k].pair : k \in DOMAIN s_tracked}

SlipFindTracked(p) == {k \in DOMAIN s_tracked : k > 1 /\ s_tracked[k].pair = p}

\* The index at which find_tracked stops; no index if the pair is not there.
FindTracked(p) ==
  {k \in DOMAIN s_tracked :
     s_tracked[k].pair = p /\ \A j \in 1 .. (k - 1) : s_tracked[j].pair # p}

SlipTrackedRemove(s, k) ==
  [j \in 1 .. Len(s) |-> IF j < k \/ j = Len(s) THEN s[j] ELSE s[j + 1]]

\* tracked_remove, run by the handler: the rows above k move down by one.
TrackedRemove(s, k) ==
  [j \in 1 .. (Len(s) - 1) |-> IF j < k THEN s[j] ELSE s[j + 1]]

\* Row k of the table's memory, used or not.
Memory(k) == IF k <= Len(s_tracked) THEN s_tracked[k] ELSE beyond[k - Len(s_tracked)]

NewTrack(p) ==
  [pair |-> p, level |-> "CLEAR", diversion |-> "", since |-> RESEND_MS + 1, lock |-> 0]

\* emit_collision: a JSON line for the host.
EmitCollision(p, lvl) ==
  /\ host' = IF lvl = "CLEAR" THEN host \ {p} ELSE host \cup {p}
  /\ orphan' = orphan \ {p}

-----------------------------------------------------------------------------
(* work_handler *)

\* snap_cb copies every entry; whether its velocity is known shows in PairClear.
Snapshot == db

\* The snapshot, and with it every unordered pair of its aircraft.
TickStart ==
  /\ handler = "idle"
  /\ handler' = "pairs"
  /\ s_snap' = Snapshot
  /\ todo' = PairsOf(Snapshot)
  /\ seen' = {}
  /\ damage' = IF shell = "shift" THEN 2 ELSE damage
  /\ out' = <<>>
  /\ UNCHANGED <<db, trackVars, row, ghostVars, hostVars>>

\* What closest_approach, classify, the vertical gate and the CRASH upgrade make
\* of a pair that is not CLEAR.
Judged == Verdict

\* What pick_diversion makes of its geometry.
Suggested == Diversion

\* The handler turns to pair p.
Classify(p) ==
  /\ handler = "pairs" /\ p \in todo
  /\ todo' = todo \ {p}
  /\ UNCHANGED <<db, s_snap, handler, row, damage, keepalive, shell, index, at, held>>

\* A pair classified CLEAR, or with a side of unknown velocity, is passed over.
PairClear(p) ==
  /\ Classify(p)
  /\ out' = <<>>
  /\ UNCHANGED <<trackVars, seen, s_ghost_active, hostVars>>

\* A pair under its CRASH lock is only marked.
PairLocked(p) ==
  /\ Classify(p)
  /\ \E k \in FindTracked(p) : s_tracked[k].lock > 0 /\ seen' = seen \cup {k}
  /\ out' = <<>>
  /\ UNCHANGED <<trackVars, s_ghost_active, hostVars>>

\* Is the pair's SIM side, found by a fresh lookup, still a BLE_SIM record?
HasSim(p) == Names(p, Sim) /\ Sim \in db

OtherSide(p) == IF p[1] = Sim THEN p[2] ELSE p[1]

\* The cached diversion and, from WARNING up, the alert, both naming the threat.
Alert(p, d, lvl) ==
  <<[type |-> "DIVERSION", other |-> OtherSide(p), d |-> d]>>
    \o IF lvl = "ADVISORY" THEN <<>>
       ELSE <<[type |-> "COLLISION", other |-> OtherSide(p)]>>

\* The terminal frame of a crash; a missile in the pair is cancelled.
CrashCalls(p) ==
  <<[type |-> "CRASH", other |-> IF HasSim(p) THEN OtherSide(p) ELSE p[1]]>>
    \o IF Names(p, Missile) THEN <<[type |-> "missile_cancel"]>> ELSE <<>>

\* A crash that involves the ghost stops it.
GhostAfterCrash(p, crashed) ==
  s_ghost_active' = IF crashed /\ Names(p, Ghost) THEN FALSE ELSE s_ghost_active

Transition(t) == t.level = "CLEAR"

SlipDueToSend(t) == HasSim(t.pair) /\ Transition(t)

\* The pair's frames are due: on the transition, and 3 s after the last ones.
DueToSend(t) == HasSim(t.pair) /\ (Transition(t) \/ t.since > RESEND_MS)

Crashes(t, lvl) == lvl = "CRASH" /\ t.level # "CRASH"

Unlocked(t) == t.lock = 0

\* Slip: last_ble_send_ms is set on every tick.
SlipGraded(t, lvl, d) ==
  [t EXCEPT !.level     = lvl,
            !.diversion = IF Transition(t) /\ HasSim(t.pair) THEN d ELSE @,
            !.since     = 0,
            !.lock      = IF Crashes(t, lvl) THEN CRASH_LOCK_MS ELSE @]

\* Slip: crash_until_ms is forgotten.
SlipGradedUnlocked(t, lvl, d) ==
  [t EXCEPT !.level     = lvl,
            !.diversion = IF Transition(t) /\ HasSim(t.pair) THEN d ELSE @,
            !.since     = IF DueToSend(t) THEN 0 ELSE @]

\* The row after a tick that classified its pair lvl.
Graded(t, lvl, d) ==
  [t EXCEPT !.level     = lvl,
            !.diversion = IF Transition(t) /\ HasSim(t.pair) THEN d ELSE @,
            !.since     = IF DueToSend(t) THEN 0 ELSE @,
            !.lock      = IF Crashes(t, lvl) THEN CRASH_LOCK_MS ELSE @]

\* A pair that is in the table already, at index k, or that finds room in it.
\* s_pair_diversion is indexed like the table.
PairTracked(p, lvl, d) ==
  LET known  == FindTracked(p)
      k      == IF known = {} THEN Len(s_tracked) + 1 ELSE CHOOSE j \in known : TRUE
      old    == IF known = {} THEN NewTrack(p) ELSE s_tracked[k]
      cached == IF Transition(old) /\ HasSim(p) THEN d ELSE s_pair_diversion[k]
  IN  /\ Classify(p)
      /\ Unlocked(old)
      /\ k <= MAX_TRACKED
      /\ s_tracked' = IF known = {} THEN Append(s_tracked, Graded(old, lvl, d))
                      ELSE [s_tracked EXCEPT ![k] = Graded(old, lvl, d)]
      /\ beyond' = IF known = {} /\ beyond # <<>> THEN Tail(beyond) ELSE beyond
      /\ s_pair_diversion' = [s_pair_diversion EXCEPT ![k] = cached]
      /\ seen' = seen \cup {k}
      /\ EmitCollision(p, lvl)
      /\ out' = (IF DueToSend(old) THEN Alert(p, cached, lvl) ELSE <<>>)
                \o (IF Crashes(old, lvl) THEN CrashCalls(p) ELSE <<>>)
      /\ GhostAfterCrash(p, Crashes(old, lvl))

\* A new pair that finds the table full: no record, no JSON, no alert; only a
\* crash is still acted on.
PairUntracked(p, lvl) ==
  /\ Classify(p)
  /\ FindTracked(p) = {} /\ Len(s_tracked) = MAX_TRACKED
  /\ out' = IF lvl = "CRASH" THEN CrashCalls(p) ELSE <<>>
  /\ GhostAfterCrash(p, lvl = "CRASH")
  /\ UNCHANGED <<trackVars, seen, hostVars>>

\* All pairs are done; the sweep runs from the top row down.
SweepStart ==
  /\ handler = "pairs" /\ todo = {}
  /\ handler' = "sweep" /\ row' = Len(s_tracked)
  /\ out' = <<>>
  /\ UNCHANGED <<db, s_snap, trackVars, todo, seen, damage, ghostVars, hostVars>>

SweepKeep ==
  /\ handler = "sweep" /\ row > 0 /\ row \in seen
  /\ row' = row - 1
  /\ out' = <<>>
  /\ UNCHANGED <<db, s_snap, trackVars, handler, todo, seen, damage, ghostVars, hostVars>>

\* The top row stays behind in memory when s_tracked_n is lowered.
Vacated ==
  IF shell = "shift" THEN <<s_tracked[Len(s_tracked)]>> \o beyond ELSE <<>>

SlipSweepDrop ==
  /\ handler = "sweep" /\ row > 0 /\ row \notin seen
  /\ s_tracked' = TrackedRemove(s_tracked, row)
  /\ beyond' = Vacated
  /\ row' = row - 1
  /\ out' = <<>>
  /\ UNCHANGED <<db, s_snap, s_pair_diversion, handler, todo, seen, damage, ghostVars,
                 hostVars>>

\* A pair not seen in this tick: tell the host it is clear and forget it.
SweepDrop ==
  /\ handler = "sweep" /\ row > 0 /\ row \notin seen
  /\ EmitCollision(s_tracked[row].pair, "CLEAR")
  /\ s_tracked' = TrackedRemove(s_tracked, row)
  /\ beyond' = Vacated
  /\ row' = row - 1
  /\ out' = <<>>
  /\ UNCHANGED <<db, s_snap, s_pair_diversion, handler, todo, seen, damage, ghostVars>>

\* The local array `seen` is gone with the call, and the snapshot is not read again
\* before the next tick takes its own.  A tick leaves one row for each pair;
\* the one after it reports every row to the host again, except those under a lock.
TickEnd ==
  /\ handler = "sweep" /\ row = 0
  /\ handler' = "idle" /\ s_snap' = {} /\ seen' = {}
  /\ damage' = IF shell = "shift" THEN 2
               ELSE IF damage = 2 THEN 1
               ELSE IF \A k \in DOMAIN s_tracked : Unlocked(s_tracked[k]) THEN 0
               ELSE damage
  /\ out' = <<>>
  /\ UNCHANGED <<db, trackVars, todo, row, ghostVars, hostVars>>

-----------------------------------------------------------------------------
(* collision_ghost_start, collision_ghost_start_at: run by the shell *)

ShellRuns == handler = "idle" /\ out' = <<>> /\ UNCHANGED tickVars

\* The operator names an aircraft of the database, or the SIM in it is found.
GhostTarget == db # {}

\* There is a target.  A ghost in flight is stopped first, and the
\* scan of the table for its pairs begins at the top.
GhostStart ==
  /\ ShellRuns /\ shell = "idle" /\ "ghost" \in Operator
  /\ GhostTarget
  /\ IF s_ghost_active
     THEN shell' = "scan" /\ index' = Len(s_tracked) /\ keepalive' = FALSE
     ELSE shell' = "upsert" /\ UNCHANGED <<index, keepalive>>
  /\ s_ghost_active' = FALSE
  /\ UNCHANGED <<db, trackVars, at, held, hostVars>>

\* Row `index` is compared with GHOST_ICAO; a row beyond the table's end is
\* left alone, because tracked_remove rejects it.
GhostScan ==
  /\ ShellRuns /\ shell = "scan"
  /\ \/ /\ index = 0
        /\ shell' = "upsert" /\ UNCHANGED index
     \/ /\ index \in DOMAIN s_tracked /\ Names(s_tracked[index].pair, Ghost)
        /\ shell' = "drop" /\ UNCHANGED index
     \/ /\ index > 0
        /\ index \in DOMAIN s_tracked => ~Names(s_tracked[index].pair, Ghost)
        /\ index' = index - 1 /\ UNCHANGED shell
  /\ UNCHANGED <<db, trackVars, s_ghost_active, keepalive, at, held, hostVars>>

\* tracked_remove of the row, whatever it holds by now: the index is tested against
\* s_tracked_n, which the build loads once ...
GhostDrop ==
  /\ ShellRuns /\ shell = "drop"
  /\ IF index \in DOMAIN s_tracked
     THEN shell' = "shift" /\ at' = index /\ held' = Len(s_tracked) /\ UNCHANGED index
     ELSE shell' = "scan" /\ index' = index - 1 /\ UNCHANGED <<at, held>>
  /\ UNCHANGED <<db, trackVars, s_ghost_active, keepalive, hostVars>>

\* What the host shows of the rows a step of the shell loses; it is not told.
Orphaned == orphan' = orphan \cup (host \cap (TrackedPairs \ TrackedPairs'))

\* ... the rows above it move down, one at a time ...
GhostShift ==
  /\ ShellRuns /\ shell = "shift" /\ at < held
  /\ s_tracked' = [k \in DOMAIN s_tracked |-> IF k = at THEN Memory(at + 1) ELSE s_tracked[k]]
  /\ beyond' = [k \in DOMAIN beyond |->
                  IF Len(s_tracked) + k = at THEN Memory(at + 1) ELSE beyond[k]]
  /\ at' = at + 1
  /\ Orphaned
  /\ UNCHANGED <<db, s_pair_diversion, s_ghost_active, keepalive, shell, index, held, host>>

\* ... and s_tracked_n becomes one less than was loaded.
GhostCut ==
  /\ ShellRuns /\ shell = "shift" /\ at = held
  /\ s_tracked' = [k \in 1 .. (held - 1) |-> Memory(k)]
  /\ beyond' = <<>>
  /\ shell' = "scan" /\ index' = index - 1 /\ at' = 0 /\ held' = 0
  /\ Orphaned
  /\ UNCHANGED <<db, s_pair_diversion, s_ghost_active, keepalive, host>>

GhostUpsert ==
  /\ ShellRuns /\ shell = "upsert"
  /\ db' = db \cup {Ghost}
  /\ shell' = "arm"
  /\ UNCHANGED <<trackVars, s_ghost_active, keepalive, index, at, held, hostVars>>

GhostArm ==
  /\ ShellRuns /\ shell = "arm"
  /\ s_ghost_active' = TRUE
  /\ shell' = "schedule"
  /\ UNCHANGED <<db, trackVars, keepalive, index, at, held, hostVars>>

GhostSchedule ==
  /\ ShellRuns /\ shell = "schedule"
  /\ keepalive' = TRUE
  /\ shell' = "idle"
  /\ UNCHANGED <<db, trackVars, s_ghost_active, index, at, held, hostVars>>

SlipGhostKeepalive ==
  /\ handler = "idle" /\ keepalive
  /\ db' = IF s_ghost_active THEN db \cup {Ghost} ELSE db
  /\ keepalive' = FALSE
  /\ out' = <<>>
  /\ UNCHANGED <<trackVars, tickVars, s_ghost_active, shell, index, at, held, hostVars>>

\* ghost_keepalive_handler, on the same work queue as the tick.
GhostKeepalive ==
  /\ handler = "idle" /\ keepalive
  /\ db' = IF s_ghost_active THEN db \cup {Ghost} ELSE db
  /\ keepalive' = s_ghost_active
  /\ out' = <<>>
  /\ UNCHANGED <<trackVars, tickVars, s_ghost_active, shell, index, at, held, hostVars>>

GhostStop ==
  /\ ShellRuns /\ shell = "idle" /\ "ghost" \in Operator /\ s_ghost_active
  /\ s_ghost_active' = FALSE
  /\ UNCHANGED <<db, trackVars, keepalive, shell, index, at, held, hostVars>>

-----------------------------------------------------------------------------
(* collision_crash_trigger, collision_diversion_send *)

\* The address the manual trigger puts in its frame.
TriggerOther(a, b) ==
  LET lo == PairKey(a, b)[1]
  IN  IF a = Sim THEN (IF a > b THEN b ELSE a)
      ELSE IF b = Sim THEN (IF a > b THEN a ELSE b)
      ELSE lo

\* Two different aircraft; the JSON frame first, then the BLE one.
CrashTrigger(a, b) ==
  /\ handler = "idle" /\ shell = "idle" /\ "crash" \in Operator
  /\ a # b /\ {a, b} \subseteq db
  /\ host' = host \cup {PairKey(a, b)}
  /\ orphan' = IF PairKey(a, b) \in TrackedPairs THEN orphan
               ELSE orphan \cup {PairKey(a, b)}
  /\ out' = <<[type |-> "CRASH", other |-> TriggerOther(a, b)]>>
  /\ UNCHANGED <<db, trackVars, tickVars, ghostVars>>

DiversionSend(d) ==
  /\ handler = "idle" /\ shell = "idle" /\ "diversion" \in Operator
  /\ Sim \in db
  /\ out' = <<[type |-> "DIVERSION", other |-> Sim, d |-> d]>>
  /\ UNCHANGED <<db, trackVars, tickVars, ghostVars, hostVars>>

-----------------------------------------------------------------------------
(* The rest of the controller *)

\* Another thread's upsert.  One that falls inside a tick is not in its snapshot
\* and is left to the next tick.
Report(i) ==
  /\ handler = "idle"
  /\ i # Ghost /\ i \notin db
  /\ db' = db \cup {i}
  /\ out' = <<>>
  /\ UNCHANGED <<trackVars, tickVars, ghostVars, hostVars>>

\* A stale eviction or an operator's clear.  Inside a tick only the SIM's record is read
\* again; another that goes then is as well gone after the tick.
Vanish(i) ==
  /\ handler = "idle" \/ (handler = "pairs" /\ i = Sim)
  /\ i \in db
  /\ db' = db \ {i}
  /\ out' = <<>>
  /\ UNCHANGED <<trackVars, tickVars, ghostVars, hostVars>>

\* Time passes between ticks; a tick is short compared with the clock's unit.
Aged(t) ==
  [t EXCEPT !.since = IF @ <= RESEND_MS THEN @ + 1 ELSE @,
            !.lock  = IF @ > 0 THEN @ - 1 ELSE 0]

Age ==
  /\ handler = "idle"
  /\ s_tracked' = [k \in DOMAIN s_tracked |-> Aged(s_tracked[k])]
  /\ beyond' = [k \in DOMAIN beyond |-> Aged(beyond[k])]
  /\ out' = <<>>
  /\ UNCHANGED <<db, s_pair_diversion, tickVars, ghostVars, hostVars>>

Advance == Age /\ <<s_tracked', beyond'>> # <<s_tracked, beyond>>

-----------------------------------------------------------------------------
Tick ==
  \/ TickStart \/ SweepStart \/ SweepKeep \/ SweepDrop \/ TickEnd
  \/ \E p \in Pair :
       \/ PairClear(p) \/ PairLocked(p)
       \/ \E lvl \in Judged :
            \/ \E d \in Suggested : PairTracked(p, lvl, d)
            \/ PairUntracked(p, lvl)

GhostCommand ==
  \/ GhostStart \/ GhostScan \/ GhostDrop \/ GhostShift \/ GhostCut \/ GhostUpsert \/ GhostArm
  \/ GhostSchedule \/ GhostStop

ManualCommand ==
  \/ \E a, b \in Icao : CrashTrigger(a, b)
  \/ \E d \in Diversion : DiversionSend(d)

Environment == (\E i \in Icao : Vanish(i) \/ Report(i)) \/ Advance

Next == Tick \/ GhostCommand \/ GhostKeepalive \/ ManualCommand \/ Environment

Spec == Init /\ [][Next]_vars

-----------------------------------------------------------------------------
(* Safety *)

\* No pair has two rows, whatever the sweep and a ghost restart remove between a
\* find_tracked and the next: two rows would alert and clear independently.  The shell
\* doubles a row while it moves the rows above another down; a tick that meets the table
\* in that state may leave rows doubled, which the next tick outside it sweeps.
OneTrackPerPair ==
  shell # "shift" /\ damage # 2 =>
    \A j, k \in DOMAIN s_tracked : s_tracked[j].pair = s_tracked[k].pair => j = k

\* The host never shows an alert but for a pair in the table or one that a ghost restart
\* or a manual crash left without a row; and it shows one for every pair in the table,
\* since emit_collision reports every row the handler adds or drops.  A tick inside the
\* shell's tracked_remove breaks the second: it clears on the host the pair whose doubled
\* row it sweeps.  It holds again after two ticks, once no row is under its crash lock.
HostView ==
  /\ orphan \subseteq host /\ host \subseteq TrackedPairs \cup orphan
  /\ damage = 0 => TrackedPairs \subseteq host /\ TrackedPairs \cap orphan = {}

\* An active ghost has its keep-alive scheduled, however stop, restart, crash and
\* keep-alive interleave; otherwise it would freeze in the air and go stale.
GhostDriven == s_ghost_active /\ shell # "schedule" => keepalive

-----------------------------------------------------------------------------
(* Liveness, with a tick that keeps running *)

\* Once an aircraft of the pair is gone for good the host is told CLEAR.
AlertEnds ==
  \A p \in Pair : <>[](p \notin PairsOf(db)) => <>[](p \in host => p \in orphan)

-----------------------------------------------------------------------------
(* What comments and documents say of the code, and the code does not do *)

\* "the pair stays CRASH for 15 s regardless of subsequent geometry": no tick
\* whose snapshot still has both aircraft drops the row of a locked pair.
CrashLockHolds ==
  [][\A k \in DOMAIN s_tracked :
       /\ handler = "sweep" /\ s_tracked[k].lock > 0
       /\ s_tracked[k].pair \in PairsOf(s_snap)
       => s_tracked[k].pair \in TrackedPairs']_vars

\* "every subsequent re-fire of the DIVERSION frame uses the same suggestion":
\* the frame carries the diversion stored in the pair's row.
DiversionSteady ==
  \A n \in DOMAIN out, k \in DOMAIN s_tracked :
    /\ out[n].type = "DIVERSION" /\ s_tracked[k].diversion # ""
    /\ s_tracked[k].pair = PairKey(Sim, out[n].other)
    => out[n].d = s_tracked[k].diversion
=============================================================================
