----------------------------- MODULE AircraftDb -----------------------------
(***************************************************************************)
(* The controller's aircraft database (controller/src/aircraft_db): a      *)
(* fixed pool of entries, an intrusive list of the entries in use, one     *)
(* mutex, and a reaper thread that evicts the entries not refreshed for    *)
(* STALE_MS.  Every operation is several steps, so that it is the mutex,   *)
(* and not the grain of the model, that keeps the callers apart.           *)
(*                                                                         *)
(* An entry is abstracted to its ICAO, the time it was last seen, the      *)
(* number of measurements its Kalman filter accepted (saturating at        *)
(* PRED_MIN_UPDATES, the only threshold the code compares it with) and     *)
(* whether a prediction is published with it.                              *)
(***************************************************************************)
EXTENDS Integers, Sequences

CONSTANTS
  Icao,             \* the aircraft addresses that are reported
  Caller,           \* threads that call the API: USB rx, bridge, work queue, shell
  Reaper,           \* the db_reaper thread
  NoThread,         \* the mutex has no owner
  NoIcao,           \* the address of a zeroed entry
  MAX_ENTRIES,      \* AIRCRAFT_DB_MAX_ENTRIES
  STALE_MS,         \* AIRCRAFT_DB_STALE_MS, in clock units
  REAPER_TICK_MS,   \* the reaper's sleep, in clock units
  PRED_MIN_UPDATES, \* AIRCRAFT_PRED_MIN_UPDATES
  MaxNow,           \* bound: the clock stops here
  MaxCalls          \* bound: upserts counted in the statistics

ASSUME ConstantsAssumption ==
  /\ MAX_ENTRIES \in Nat \ {0}
  /\ STALE_MS \in Nat
  /\ REAPER_TICK_MS \in Nat \ {0}
  /\ PRED_MIN_UPDATES \in Nat \ {0}
  /\ MaxNow \in Nat
  /\ MaxCalls \in Nat
  /\ Reaper \notin Caller
  /\ NoThread \notin Caller \cup {Reaper}
  /\ NoIcao \notin Icao

VARIABLES
  s_pool,       \* slot -> entry
  s_pool_used,  \* slot -> is it allocated?
  s_list,       \* the slots on the list, head first
  s_mutex,      \* owner of the mutex
  s_stats,      \* the counters
  pc,           \* thread -> the step it is at
  icao,         \* thread -> argument of its upsert
  now_ms,       \* thread -> the uptime it read under the mutex
  node,         \* thread -> the entry its find or its walk is at, NULL if none
  prev,         \* the reaper's trailing pointer
  wake,         \* when the reaper's k_sleep ends
  uptime,       \* k_uptime_get()
  obs           \* history: reports of an aircraft since it was inserted

vars == <<s_pool, s_pool_used, s_list, s_mutex, s_stats, pc, icao, now_ms,
          node, prev, wake, uptime, obs>>

Slot == 1 .. MAX_ENTRIES
NULL == 0
Thread == Caller \cup {Reaper}

Entry == [icao : Icao \cup {NoIcao}, last_seen : Nat,
          update_count : 0 .. PRED_MIN_UPDATES, pred : BOOLEAN]

ZeroEntry == [icao |-> NoIcao, last_seen |-> 0, update_count |-> 0, pred |-> FALSE]

ZeroStats == [inserts |-> 0, updates |-> 0, stale_evicts |-> 0, pool_full |-> 0]

-----------------------------------------------------------------------------
(* The list, Zephyr's sys_slist, and the helpers called with the mutex held. *)

Listed == {s_list[k] : k \in DOMAIN s_list}

Position(list, s) == CHOOSE k \in DOMAIN list : list[k] = s

First(list) == IF list = <<>> THEN NULL ELSE list[1]

Successor(list, s) ==
  LET k == Position(list, s) IN IF k = Len(list) THEN NULL ELSE list[k + 1]

\* sys_slist_remove: links the predecessor p it is given (or the head) to the
\* successor of s, so whatever lies between p and s goes as well.
SlistRemove(list, p, s) ==
  LET i == IF p = NULL THEN 0 ELSE Position(list, p)
      d == Position(list, s) - i
  IN  [k \in 1 .. (Len(list) - d) |-> IF k <= i THEN list[k] ELSE list[k + d]]

\* sys_slist_find_and_remove looks the predecessor up itself.
SlistFindAndRemove(list, s) ==
  LET k == Position(list, s)
  IN  SlistRemove(list, IF k = 1 THEN NULL ELSE list[k - 1], s)

\* The slots pool_alloc can return: the first free one.
PoolAlloc(used) ==
  {s \in Slot : ~used[s] /\ \A r \in Slot : r < s => used[r]}

\* Slip: the slot is never marked free.
SlipPoolFree(used, s) == used

PoolFree(used, s) == [used EXCEPT ![s] = FALSE]

\* The entries find_locked can return: the first on the list with the address.
FindLocked(i) ==
  {s_list[k] : k \in {m \in DOMAIN s_list :
                        /\ s_pool[s_list[m]].icao = i
                        /\ \A n \in 1 .. (m - 1) : s_pool[s_list[n]].icao # i}}

\* kalman_update counts a measurement unless the innovation's determinant is
\* zero or not finite; counts past the threshold are alike.
KalmanUpdate(count, accepted) ==
  IF accepted /\ count < PRED_MIN_UPDATES THEN count + 1 ELSE count

\* The tail of aircraft_db_upsert: the observation replaces the record, and a
\* prediction is published with it once the filter has converged.
Observed(i, t, count) ==
  [icao |-> i, last_seen |-> t, update_count |-> count,
   pred |-> count >= PRED_MIN_UPDATES]

-----------------------------------------------------------------------------
Lock(t) == s_mutex = NoThread /\ s_mutex' = t

Unlock(t) == s_mutex' = NoThread

Goto(t, label) == pc' = [pc EXCEPT ![t] = label]

Init ==
  /\ s_pool = [s \in Slot |-> ZeroEntry]
  /\ s_pool_used = [s \in Slot |-> FALSE]
  /\ s_list = <<>>
  /\ s_mutex = NoThread
  /\ s_stats = ZeroStats
  /\ pc = [t \in Thread |-> "idle"]
  /\ icao = [t \in Thread |-> NoIcao]
  /\ now_ms = [t \in Thread |-> 0]
  /\ node = [t \in Thread |-> NULL]
  /\ prev = NULL
  /\ wake = REAPER_TICK_MS
  /\ uptime = 0
  /\ obs = [i \in Icao |-> 0]

-----------------------------------------------------------------------------
(* aircraft_db_upsert *)

\* Slip: the upsert does not take the mutex.
SlipUpsertLock(t, i) ==
  /\ pc[t] = "idle"
  /\ s_stats.inserts + s_stats.updates + s_stats.pool_full < MaxCalls
  /\ Goto(t, "find")
  /\ icao' = [icao EXCEPT ![t] = i]
  /\ UNCHANGED <<s_pool, s_pool_used, s_list, s_mutex, s_stats, now_ms, node, prev,
                 wake, uptime, obs>>

UpsertLock(t, i) ==
  /\ pc[t] = "idle"
  /\ s_stats.inserts + s_stats.updates + s_stats.pool_full < MaxCalls
  /\ Lock(t)
  /\ Goto(t, "find")
  /\ icao' = [icao EXCEPT ![t] = i]
  /\ UNCHANGED <<s_pool, s_pool_used, s_list, s_stats, now_ms, node, prev, wake,
                 uptime, obs>>

UpsertFind(t) ==
  /\ pc[t] = "find"
  /\ now_ms' = [now_ms EXCEPT ![t] = uptime]
  /\ \/ \E s \in FindLocked(icao[t]) : node' = [node EXCEPT ![t] = s]
     \/ FindLocked(icao[t]) = {} /\ node' = [node EXCEPT ![t] = NULL]
  /\ Goto(t, "write")
  /\ UNCHANGED <<s_pool, s_pool_used, s_list, s_mutex, s_stats, icao, prev, wake,
                 uptime, obs>>

\* Leave the critical section and forget its locals.
Return(t) ==
  /\ Unlock(t)
  /\ Goto(t, "idle")
  /\ icao' = [icao EXCEPT ![t] = NoIcao]
  /\ now_ms' = [now_ms EXCEPT ![t] = 0]
  /\ node' = [node EXCEPT ![t] = NULL]

UpsertUpdate(t) ==
  /\ pc[t] = "write" /\ node[t] # NULL
  /\ \E accepted \in BOOLEAN :
       s_pool' = [s_pool EXCEPT ![node[t]] =
                    Observed(icao[t], now_ms[t], KalmanUpdate(@.update_count, accepted))]
  /\ s_stats' = [s_stats EXCEPT !.updates = @ + 1]
  /\ obs' = [obs EXCEPT ![icao[t]] = @ + 1]
  /\ Return(t)
  /\ UNCHANGED <<s_pool_used, s_list, prev, wake, uptime>>

\* Slip: neither the memset nor kalman_init resets the recycled filter.
SlipUpsertInsert(t) ==
  /\ pc[t] = "write" /\ node[t] = NULL
  /\ \E s \in PoolAlloc(s_pool_used), accepted \in BOOLEAN :
       /\ s_pool_used' = [s_pool_used EXCEPT ![s] = TRUE]
       /\ s_pool' = [s_pool EXCEPT ![s] =
                       Observed(icao[t], now_ms[t], KalmanUpdate(@.update_count, accepted))]
       /\ s_list' = Append(s_list, s)
  /\ s_stats' = [s_stats EXCEPT !.inserts = @ + 1]
  /\ obs' = [obs EXCEPT ![icao[t]] = 1]
  /\ Return(t)
  /\ UNCHANGED <<prev, wake, uptime>>

UpsertInsert(t) ==
  /\ pc[t] = "write" /\ node[t] = NULL
  /\ \E s \in PoolAlloc(s_pool_used), accepted \in BOOLEAN :
       /\ s_pool_used' = [s_pool_used EXCEPT ![s] = TRUE]
       /\ s_pool' = [s_pool EXCEPT ![s] =
                       Observed(icao[t], now_ms[t], KalmanUpdate(0, accepted))]
       /\ s_list' = Append(s_list, s)
  /\ s_stats' = [s_stats EXCEPT !.inserts = @ + 1]
  /\ obs' = [obs EXCEPT ![icao[t]] = 1]
  /\ Return(t)
  /\ UNCHANGED <<prev, wake, uptime>>

UpsertFull(t) ==
  /\ pc[t] = "write" /\ node[t] = NULL
  /\ PoolAlloc(s_pool_used) = {}
  /\ s_stats' = [s_stats EXCEPT !.pool_full = @ + 1]
  /\ Return(t)
  /\ UNCHANGED <<s_pool, s_pool_used, s_list, prev, wake, uptime, obs>>

-----------------------------------------------------------------------------
(* aircraft_db_clear *)

ClearLock(t) ==
  /\ pc[t] = "idle"
  /\ Lock(t)
  /\ Goto(t, "clear")
  /\ node' = [node EXCEPT ![t] = First(s_list)]
  /\ UNCHANGED <<s_pool, s_pool_used, s_list, s_stats, icao, now_ms, prev, wake,
                 uptime, obs>>

ClearStep(t) ==
  /\ pc[t] = "clear" /\ node[t] # NULL
  /\ s_list' = SlistFindAndRemove(s_list, node[t])
  /\ s_pool_used' = PoolFree(s_pool_used, node[t])
  /\ node' = [node EXCEPT ![t] = Successor(s_list, node[t])]
  /\ UNCHANGED <<s_pool, s_mutex, s_stats, pc, icao, now_ms, prev, wake, uptime, obs>>

\* Slip: the counters survive the clear.
SlipClearUnlock(t) ==
  /\ pc[t] = "clear" /\ node[t] = NULL
  /\ Return(t)
  /\ UNCHANGED <<s_pool, s_pool_used, s_list, s_stats, prev, wake, uptime, obs>>

ClearUnlock(t) ==
  /\ pc[t] = "clear" /\ node[t] = NULL
  /\ s_stats' = ZeroStats
  /\ Return(t)
  /\ UNCHANGED <<s_pool, s_pool_used, s_list, prev, wake, uptime, obs>>

-----------------------------------------------------------------------------
(* aircraft_db_for_each; aircraft_db_count is the walk whose callback never *)
(* stops it.                                                                *)

\* Slip: the walk does not take the mutex.
SlipWalkLock(t) ==
  /\ pc[t] = "idle"
  /\ Goto(t, "walk")
  /\ node' = [node EXCEPT ![t] = First(s_list)]
  /\ UNCHANGED <<s_pool, s_pool_used, s_list, s_mutex, s_stats, icao, now_ms, prev,
                 wake, uptime, obs>>

WalkLock(t) ==
  /\ pc[t] = "idle"
  /\ Lock(t)
  /\ Goto(t, "walk")
  /\ node' = [node EXCEPT ![t] = First(s_list)]
  /\ UNCHANGED <<s_pool, s_pool_used, s_list, s_stats, icao, now_ms, prev, wake,
                 uptime, obs>>

\* The callback returns true and the walk goes on.
WalkStep(t) ==
  /\ pc[t] = "walk" /\ node[t] # NULL
  /\ node' = [node EXCEPT ![t] = Successor(s_list, node[t])]
  /\ UNCHANGED <<s_pool, s_pool_used, s_list, s_mutex, s_stats, pc, icao, now_ms,
                 prev, wake, uptime, obs>>

\* The end of the list, or a callback that returns false.
WalkUnlock(t) ==
  /\ pc[t] = "walk"
  /\ Return(t)
  /\ UNCHANGED <<s_pool, s_pool_used, s_list, s_stats, prev, wake, uptime, obs>>

-----------------------------------------------------------------------------
(* reaper_thread_fn and reap_locked *)

ReapLock ==
  /\ pc[Reaper] = "idle" /\ uptime >= wake
  /\ Lock(Reaper)
  /\ Goto(Reaper, "reap")
  /\ now_ms' = [now_ms EXCEPT ![Reaper] = uptime]
  /\ node' = [node EXCEPT ![Reaper] = First(s_list)]
  /\ prev' = NULL
  /\ UNCHANGED <<s_pool, s_pool_used, s_list, s_stats, icao, wake, uptime, obs>>

\* Slip: the threshold itself counts as stale.
SlipStale(s) == now_ms[Reaper] - s_pool[s].last_seen >= STALE_MS

Stale(s) == now_ms[Reaper] - s_pool[s].last_seen > STALE_MS

\* Slip: the walk ends at the entry it unlinked (no saved next pointer).
SlipReapEvict ==
  /\ pc[Reaper] = "reap" /\ node[Reaper] # NULL /\ Stale(node[Reaper])
  /\ s_list' = SlistRemove(s_list, prev, node[Reaper])
  /\ s_pool_used' = PoolFree(s_pool_used, node[Reaper])
  /\ s_stats' = [s_stats EXCEPT !.stale_evicts = @ + 1]
  /\ node' = [node EXCEPT ![Reaper] = NULL]
  /\ UNCHANGED <<s_pool, s_mutex, pc, icao, now_ms, prev, wake, uptime, obs>>

ReapEvict ==
  /\ pc[Reaper] = "reap" /\ node[Reaper] # NULL /\ Stale(node[Reaper])
  /\ s_list' = SlistRemove(s_list, prev, node[Reaper])
  /\ s_pool_used' = PoolFree(s_pool_used, node[Reaper])
  /\ s_stats' = [s_stats EXCEPT !.stale_evicts = @ + 1]
  /\ node' = [node EXCEPT ![Reaper] = Successor(s_list, node[Reaper])]
  /\ UNCHANGED <<s_pool, s_mutex, pc, icao, now_ms, prev, wake, uptime, obs>>

\* Slip: prev does not follow the walk.
SlipReapKeep ==
  /\ pc[Reaper] = "reap" /\ node[Reaper] # NULL /\ ~Stale(node[Reaper])
  /\ node' = [node EXCEPT ![Reaper] = Successor(s_list, node[Reaper])]
  /\ UNCHANGED <<s_pool, s_pool_used, s_list, s_mutex, s_stats, pc, icao, now_ms,
                 prev, wake, uptime, obs>>

ReapKeep ==
  /\ pc[Reaper] = "reap" /\ node[Reaper] # NULL /\ ~Stale(node[Reaper])
  /\ prev' = node[Reaper]
  /\ node' = [node EXCEPT ![Reaper] = Successor(s_list, node[Reaper])]
  /\ UNCHANGED <<s_pool, s_pool_used, s_list, s_mutex, s_stats, pc, icao, now_ms,
                 wake, uptime, obs>>

ReapUnlock ==
  /\ pc[Reaper] = "reap" /\ node[Reaper] = NULL
  /\ Return(Reaper)
  /\ prev' = NULL
  /\ wake' = uptime + REAPER_TICK_MS
  /\ UNCHANGED <<s_pool, s_pool_used, s_list, s_stats, uptime, obs>>

-----------------------------------------------------------------------------
\* One clock unit passes.  The unit is long compared with a critical section:
\* the clock does not pass the reaper's wake-up before its pass has ended.
Tick ==
  /\ uptime < MaxNow /\ uptime < wake
  /\ uptime' = uptime + 1
  /\ UNCHANGED <<s_pool, s_pool_used, s_list, s_mutex, s_stats, pc, icao, now_ms,
                 node, prev, wake, obs>>

\* What the threads ask of the database: reports, the operator's clear, walks.
CallerNext(t) ==
  \/ \E i \in Icao : UpsertLock(t, i)
  \/ UpsertFind(t) \/ UpsertUpdate(t) \/ UpsertInsert(t) \/ UpsertFull(t)
  \/ ClearLock(t) \/ ClearStep(t) \/ ClearUnlock(t)
  \/ WalkLock(t) \/ WalkStep(t) \/ WalkUnlock(t)

ReaperNext == ReapLock \/ ReapEvict \/ ReapKeep \/ ReapUnlock

Next == (\E t \in Caller : CallerNext(t)) \/ ReaperNext \/ Tick

Spec == Init /\ [][Next]_vars

-----------------------------------------------------------------------------
(* Properties *)

Stats == [inserts : Nat, updates : Nat, stale_evicts : Nat, pool_full : Nat]

\* Every variable of the database has its type (aircraft_db.c:30-35).
TypeOK ==
  /\ s_pool \in [Slot -> Entry]
  /\ s_pool_used \in [Slot -> BOOLEAN]
  /\ s_list \in Seq(Slot)
  /\ s_mutex \in Thread \cup {NoThread}
  /\ s_stats \in Stats
  /\ pc \in [Thread -> {"idle", "find", "write", "clear", "walk", "reap"}]
  /\ icao \in [Thread -> Icao \cup {NoIcao}]
  /\ now_ms \in [Thread -> Nat]
  /\ node \in [Thread -> Slot \cup {NULL}]
  /\ prev \in Slot \cup {NULL}
  /\ wake \in Nat
  /\ uptime \in Nat
  /\ obs \in [Icao -> Nat]

\* A slot is on the list at most once, and the allocated slots are exactly the
\* listed ones: evictions, clears and full-pool refusals leak no slot and free
\* none that is in use (pool_alloc, pool_free and their callers).
PoolMatchesList ==
  /\ \A k, m \in DOMAIN s_list : s_list[k] = s_list[m] => k = m
  /\ \A s \in Slot : s_pool_used[s] <=> s \in Listed

\* However the threads' upserts interleave, one aircraft has one entry: the
\* find and the insert are one critical section (aircraft_db_upsert).
OneEntryPerAircraft ==
  \A s, r \in Listed : s_pool[s].icao = s_pool[r].icao => s = r

\* A thread that walks or has found an entry works on one that is still on the
\* list: no walk steps onto an entry that another thread freed.
NoFreedNode ==
  \A t \in Thread : node[t] # NULL => node[t] \in Listed

\* When no operation is under way, the counters account for every entry: those
\* inserted since the last clear and not evicted are on the list (s_stats).
StatsBalance ==
  s_mutex = NoThread => s_stats.inserts - s_stats.stale_evicts = Len(s_list)

\* An entry outlives its last report by the stale threshold and one reaper
\* period at most, provided the reaper runs when its sleep ends.
StaleBound ==
  \A s \in Listed : uptime - s_pool[s].last_seen <= STALE_MS + REAPER_TICK_MS

\* A prediction is published only for an aircraft reported PRED_MIN_UPDATES
\* times since it was inserted: a recycled slot inherits no filter state.
PredictionEarned ==
  \A s \in Listed : s_pool[s].pred => obs[s_pool[s].icao] >= PRED_MIN_UPDATES

\* A step other than an operator's clear never takes an entry off the list
\* whose last report is within the threshold (reap_locked's strict test).
FreshKept ==
  [][\A s \in Listed : s \notin Listed' =>
       \/ \E t \in Caller : pc[t] = "clear"
       \/ uptime - s_pool[s].last_seen > STALE_MS]_vars

-----------------------------------------------------------------------------
(* The database as an implementation of AircraftStore *)

\* The map that a pool and a set of listed slots stand for.
Abstracted(pool, listed) ==
  [i \in {pool[s].icao : s \in listed} |->
     pool[CHOOSE s \in listed : pool[s].icao = i].last_seen]

\* What a caller can observe of the list.
AbsStore == Abstracted(s_pool, Listed)

Clearing == \E t \in Caller : pc[t] = "clear"

Store == INSTANCE AircraftStore
           WITH Capacity <- MAX_ENTRIES, Threshold <- STALE_MS,
                store <- AbsStore, clock <- uptime, clearing <- Clearing

\* The pool, the list, the mutex and the reaper together implement the bounded
\* map of AircraftStore: each critical section takes effect as its operations.
ImplementsStore == Store!StoreSpec
=============================================================================
