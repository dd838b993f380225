------------------------- MODULE AircraftDb_proofs --------------------------
(***************************************************************************)
(* Proofs about AircraftDb, for every pool size, threshold, set of         *)
(* aircraft and set of calling threads.                                    *)
(***************************************************************************)
EXTENDS AircraftDb, TLAPS, WellFoundedInduction, FiniteSetTheorems

RangeOf(list) == {list[k] : k \in DOMAIN list}

Injective(list) == \A k, m \in DOMAIN list : list[k] = list[m] => k = m

-----------------------------------------------------------------------------
(* The list operators *)

\* Every inhabited set of naturals has a least element.
LEMMA LeastNat ==
  ASSUME NEW T \in SUBSET Nat, T # {}
  PROVE  \E x \in T : \A y \in T : x <= y
<1> DEFINE R == {ss \in Nat \X Nat : ss[1] < ss[2]}
<1>1. IsWellFoundedOn(R, Nat)
  BY NatLessThanWellFounded, Zenon DEF OpToRel
<1> HIDE DEF R
<1>2. PICK x \in T : \A y \in T : <<y, x>> \notin R
  BY <1>1, WFMin
<1>3. \A y \in T : ~(y < x)
  BY <1>2 DEF R
<1> QED BY <1>3

\* find_locked returns a listed entry with the address, and returns NULL only
\* when there is none.
LEMMA FindFacts ==
  ASSUME TypeOK, NEW i
  PROVE  /\ \A s \in FindLocked(i) : s \in Listed /\ s_pool[s].icao = i
         /\ FindLocked(i) = {} => \A s \in Listed : s_pool[s].icao # i
<1>1. \A s \in FindLocked(i) : s \in Listed /\ s_pool[s].icao = i
  BY DEF FindLocked, Listed
<1>2. ASSUME NEW s \in Listed, s_pool[s].icao = i
      PROVE  FindLocked(i) # {}
  <2> DEFINE T == {m \in DOMAIN s_list : s_pool[s_list[m]].icao = i}
  <2>1. T # {} /\ T \in SUBSET Nat
    BY <1>2 DEF Listed, TypeOK
  <2>2. PICK x \in T : \A y \in T : x <= y
    BY <2>1, LeastNat
  <2>3. \A n \in 1 .. (x - 1) : s_pool[s_list[n]].icao # i
    BY <2>2 DEF TypeOK
  <2> QED BY <2>2, <2>3 DEF FindLocked
<1> QED BY <1>1, <1>2

\* In a list without repetition, Position finds the one place of an element.
LEMMA PositionUnique ==
  ASSUME NEW list \in Seq(Slot), Injective(list), NEW k \in DOMAIN list
  PROVE  Position(list, list[k]) = k
BY DEF Position, Injective

\* First and Successor return a node of the list or NULL.
LEMMA WalkStaysOnList ==
  ASSUME NEW list \in Seq(Slot)
  PROVE  /\ First(list) \in RangeOf(list) \cup {NULL}
         /\ RangeOf(list) \subseteq Slot
         /\ Injective(list) =>
              \A k \in DOMAIN list :
                Successor(list, list[k]) = IF k = Len(list) THEN NULL ELSE list[k + 1]
<1>1. First(list) \in RangeOf(list) \cup {NULL}
  BY DEF First, RangeOf
<1>2. RangeOf(list) \subseteq Slot
  BY DEF RangeOf
<1>3. ASSUME Injective(list), NEW k \in DOMAIN list
      PROVE  Successor(list, list[k]) = IF k = Len(list) THEN NULL ELSE list[k + 1]
  BY <1>3, PositionUnique DEF Successor
<1> QED BY <1>1, <1>2, <1>3

\* Given the true predecessor, sys_slist_remove takes out exactly one node.
LEMMA RemoveOne ==
  ASSUME NEW list \in Seq(Slot), Injective(list), NEW k \in DOMAIN list,
         NEW p \in Slot \cup {NULL},
         p = IF k = 1 THEN NULL ELSE list[k - 1]
  PROVE  /\ SlistRemove(list, p, list[k]) =
              [j \in 1 .. (Len(list) - 1) |-> IF j < k THEN list[j] ELSE list[j + 1]]
         /\ SlistRemove(list, p, list[k]) \in Seq(Slot)
         /\ Len(SlistRemove(list, p, list[k])) = Len(list) - 1
         /\ Injective(SlistRemove(list, p, list[k]))
         /\ RangeOf(SlistRemove(list, p, list[k])) = RangeOf(list) \ {list[k]}
<1> DEFINE new == SlistRemove(list, p, list[k])
           cut == [j \in 1 .. (Len(list) - 1) |-> IF j < k THEN list[j] ELSE list[j + 1]]
<1>0. DOMAIN list = 1 .. Len(list) /\ Len(list) \in Nat /\ k \in 1 .. Len(list)
  OBVIOUS
<1>1. Position(list, list[k]) = k
  BY PositionUnique
<1>2. (IF p = NULL THEN 0 ELSE Position(list, p)) = k - 1
  <2>1. CASE k = 1
    BY <2>1 DEF NULL
  <2>2. CASE k # 1
    <3>1. k - 1 \in DOMAIN list /\ list[k - 1] \in Slot
      BY <1>0, <2>2
    <3>2. Position(list, list[k - 1]) = k - 1
      BY <3>1, PositionUnique
    <3> QED BY <2>2, <3>1, <3>2, <1>0 DEF NULL, Slot
  <2> QED BY <2>1, <2>2
<1>3. new = cut
  BY <1>0, <1>1, <1>2 DEF SlistRemove
<1>4. \A j \in 1 .. (Len(list) - 1) : cut[j] \in Slot
  BY <1>0
<1>5. cut \in Seq(Slot) /\ Len(cut) = Len(list) - 1 /\ DOMAIN cut = 1 .. (Len(list) - 1)
  BY <1>0, <1>4
<1>6. Injective(cut)
  BY <1>0, <1>5 DEF Injective
<1>7. RangeOf(cut) = RangeOf(list) \ {list[k]}
  <2>1. ASSUME NEW j \in 1 .. (Len(list) - 1)
        PROVE  cut[j] \in RangeOf(list) \ {list[k]}
    BY <1>0 DEF Injective, RangeOf
  <2>2. ASSUME NEW m \in DOMAIN list, list[m] # list[k]
        PROVE  list[m] \in RangeOf(cut)
    <3>1. CASE m < k
      <4>1. m \in DOMAIN cut /\ cut[m] = list[m]
        BY <3>1, <1>0, <1>5
      <4> QED BY <4>1 DEF RangeOf
    <3>2. CASE m > k
      <4>1. m - 1 \in DOMAIN cut /\ cut[m - 1] = list[m]
        BY <3>2, <1>0, <1>5
      <4> QED BY <4>1 DEF RangeOf
    <3> QED BY <3>1, <3>2, <2>2, <1>0
  <2>3. RangeOf(cut) \subseteq RangeOf(list) \ {list[k]}
    BY <2>1, <1>5, Zenon DEF RangeOf
  <2>4. RangeOf(list) \ {list[k]} \subseteq RangeOf(cut)
    <3> SUFFICES ASSUME NEW x \in RangeOf(list), x # list[k] PROVE x \in RangeOf(cut)
      OBVIOUS
    <3>1. PICK m \in DOMAIN list : x = list[m]
      BY DEF RangeOf
    <3> QED BY <3>1, <2>2
  <2> QED BY <2>3, <2>4
<1> HIDE DEF new, cut
<1>8. /\ new \in Seq(Slot) /\ Len(new) = Len(list) - 1
      /\ Injective(new) /\ RangeOf(new) = RangeOf(list) \ {list[k]}
  BY <1>3, <1>5, <1>6, <1>7
<1> QED BY <1>3, <1>8 DEF new, cut

-----------------------------------------------------------------------------
(***************************************************************************)
(* The inductive invariant.  PoolMatchesList and OneEntryPerAircraft are   *)
(* not inductive: an insert keeps them only because the find it acted on   *)
(* is still true, an unlink only because the pointers it was given are     *)
(* still the right ones, and both hold because no other thread is inside   *)
(* the critical section.                                                   *)
(***************************************************************************)
MutexInv ==
  /\ \A t \in Thread : pc[t] # "idle" => s_mutex = t
  /\ pc[Reaper] \in {"idle", "reap"}
  /\ \A t \in Caller : pc[t] # "reap"

UpsertInv ==
  \A t \in Thread :
    /\ pc[t] \in {"idle", "find"} => node[t] = NULL
    /\ pc[t] \in {"find", "write"} => icao[t] \in Icao
    /\ pc[t] = "write" /\ node[t] = NULL => \A s \in Listed : s_pool[s].icao # icao[t]
    /\ pc[t] = "write" /\ node[t] # NULL =>
         node[t] \in Listed /\ s_pool[node[t]].icao = icao[t]

WalkInv ==
  \A t \in Thread :
    /\ pc[t] = "clear" => node[t] = First(s_list)
    /\ pc[t] = "walk" => node[t] \in Listed \cup {NULL}

Fresh(s) == now_ms[Reaper] - s_pool[s].last_seen <= STALE_MS

\* The reaper stands before position k, its trailing pointer just behind, and
\* what it has passed is fresh.
ReapInv ==
  pc[Reaper] = "reap" =>
    \E k \in 1 .. (Len(s_list) + 1) :
      /\ node[Reaper] = IF k = Len(s_list) + 1 THEN NULL ELSE s_list[k]
      /\ prev = IF k = 1 THEN NULL ELSE s_list[k - 1]
      /\ \A j \in 1 .. (k - 1) : Fresh(s_list[j])

StatsInv ==
  (\A t \in Caller : pc[t] # "clear") =>
     s_stats.inserts - s_stats.stale_evicts = Len(s_list)

PredInv ==
  \A s \in Listed :
    /\ s_pool[s].icao \in Icao
    /\ s_pool[s].update_count <= obs[s_pool[s].icao]
    /\ s_pool[s].pred => s_pool[s].update_count >= PRED_MIN_UPDATES

TimeInv ==
  /\ wake - REAPER_TICK_MS <= uptime /\ uptime <= wake
  /\ pc[Reaper] = "reap" => uptime = wake /\ now_ms[Reaper] = uptime
  /\ \A t \in Caller : pc[t] = "write" =>
        wake - REAPER_TICK_MS <= now_ms[t] /\ now_ms[t] <= uptime
  /\ \A s \in Listed : wake - REAPER_TICK_MS - STALE_MS <= s_pool[s].last_seen

IInv ==
  /\ TypeOK /\ MutexInv /\ PoolMatchesList /\ OneEntryPerAircraft
  /\ UpsertInv /\ WalkInv /\ ReapInv /\ StatsInv /\ PredInv /\ TimeInv

-----------------------------------------------------------------------------
(* The invariant is established by Init and kept by every action. *)

\* The invariant holds when the firmware has called aircraft_db_init.
LEMMA InitIInv == Init => IInv
<1> SUFFICES ASSUME Init PROVE IInv
  OBVIOUS
<1> USE ConstantsAssumption DEF Init
<1>0. Listed = {}
  BY DEF Listed
<1>1. TypeOK
  BY DEF TypeOK, Entry, ZeroEntry, Stats, ZeroStats, NULL
<1>2. MutexInv /\ UpsertInv /\ WalkInv /\ ReapInv
  BY DEF MutexInv, UpsertInv, WalkInv, ReapInv, Thread, NULL
<1>3. PoolMatchesList /\ OneEntryPerAircraft /\ StatsInv /\ PredInv
  BY <1>0 DEF PoolMatchesList, OneEntryPerAircraft, StatsInv, PredInv, ZeroStats, Slot
<1>4. TimeInv
  BY <1>0 DEF TimeInv, Thread
<1> QED BY <1>1, <1>2, <1>3, <1>4 DEF IInv

\* While one thread is inside the critical section every other is outside.
LEMMA Exclusive ==
  ASSUME IInv, NEW t \in Thread, pc[t] # "idle"
  PROVE  s_mutex = t /\ \A r \in Thread \ {t} : pc[r] = "idle"
BY DEF IInv, MutexInv

\* Nobody is inside while the mutex is free.
LEMMA AllIdle ==
  ASSUME IInv, s_mutex = NoThread
  PROVE  \A r \in Thread : pc[r] = "idle"
BY ConstantsAssumption DEF IInv, MutexInv, Thread

\* What the invariant says of the list, in the terms of the list lemmas.
LEMMA ListFacts ==
  ASSUME IInv
  PROVE  /\ s_list \in Seq(Slot) /\ Len(s_list) \in Nat /\ DOMAIN s_list = 1 .. Len(s_list)
         /\ Injective(s_list) /\ Listed = RangeOf(s_list) /\ Listed \subseteq Slot
BY DEF IInv, TypeOK, PoolMatchesList, Injective, Listed, RangeOf

\* The fields of entries and counters have their types.
LEMMA FieldTypes ==
  ASSUME IInv
  PROVE  /\ \A s \in Slot : /\ s_pool[s].last_seen \in Nat
                            /\ s_pool[s].update_count \in 0 .. PRED_MIN_UPDATES
         /\ s_stats.inserts \in Nat /\ s_stats.updates \in Nat
         /\ s_stats.stale_evicts \in Nat /\ s_stats.pool_full \in Nat
         /\ uptime \in Nat /\ wake \in Nat
         /\ \A t \in Thread : now_ms[t] \in Nat
BY DEF IInv, TypeOK, Entry, Stats

\* An observation is a well-formed entry, and it carries a prediction only if
\* its filter has counted enough measurements.
LEMMA ObservedFacts ==
  ASSUME NEW i \in Icao, NEW t \in Nat, NEW c \in 0 .. PRED_MIN_UPDATES
  PROVE  /\ Observed(i, t, c) \in Entry
         /\ Observed(i, t, c).icao = i /\ Observed(i, t, c).last_seen = t
         /\ Observed(i, t, c).update_count = c
         /\ Observed(i, t, c).pred => c >= PRED_MIN_UPDATES
<1> DEFINE b == c >= PRED_MIN_UPDATES
<1>1. b \in BOOLEAN
  OBVIOUS
<1>2. Observed(i, t, c) = [icao |-> i, last_seen |-> t, update_count |-> c, pred |-> b]
  BY DEF Observed
<1>3. b => c >= PRED_MIN_UPDATES
  OBVIOUS
<1> HIDE DEF b
<1>4. Observed(i, t, c) \in Entry
  BY <1>1, <1>2 DEF Entry
<1>5. /\ Observed(i, t, c).icao = i /\ Observed(i, t, c).last_seen = t
      /\ Observed(i, t, c).update_count = c /\ Observed(i, t, c).pred = b
  BY <1>2
<1> QED BY <1>3, <1>4, <1>5

\* Counting keeps the counters' type.
LEMMA CountFacts ==
  ASSUME NEW st \in Stats
  PROVE  /\ [st EXCEPT !.inserts = @ + 1] \in Stats
         /\ [st EXCEPT !.updates = @ + 1] \in Stats
         /\ [st EXCEPT !.stale_evicts = @ + 1] \in Stats
         /\ [st EXCEPT !.pool_full = @ + 1] \in Stats
<1>1. [st EXCEPT !.inserts = @ + 1] \in Stats
  BY DEF Stats
<1>2. [st EXCEPT !.updates = @ + 1] \in Stats
  BY DEF Stats
<1>3. [st EXCEPT !.stale_evicts = @ + 1] \in Stats
  BY DEF Stats
<1>4. [st EXCEPT !.pool_full = @ + 1] \in Stats
  BY DEF Stats
<1> QED BY <1>1, <1>2, <1>3, <1>4

\* kalman_update counts at most one measurement.
LEMMA KalmanFacts ==
  ASSUME NEW c \in 0 .. PRED_MIN_UPDATES, NEW a \in BOOLEAN
  PROVE  KalmanUpdate(c, a) \in 0 .. PRED_MIN_UPDATES /\ KalmanUpdate(c, a) <= c + 1
BY ConstantsAssumption DEF KalmanUpdate

\* Entering an upsert keeps the invariant.
LEMMA UpsertLockKeeps ==
  ASSUME IInv, NEW t \in Caller, NEW i \in Icao, UpsertLock(t, i)
  PROVE  IInv'
<1> USE ConstantsAssumption DEF IInv, UpsertLock, Lock, Goto
<1>1. \A r \in Thread : pc[r] = "idle"
  BY AllIdle
<1>2. TypeOK'
  BY <1>1 DEF TypeOK, Thread, NULL
<1>3. MutexInv'
  BY <1>1 DEF MutexInv, Thread, TypeOK
<1>4. PoolMatchesList'
  BY <1>1 DEF PoolMatchesList, Listed
<1>5. OneEntryPerAircraft'
  BY <1>1 DEF OneEntryPerAircraft, Listed
<1>6. UpsertInv'
  BY <1>1 DEF UpsertInv, Listed, Thread, TypeOK, NULL
<1>7. WalkInv'
  BY <1>1 DEF WalkInv, Listed, Thread, TypeOK
<1>8. ReapInv'
  BY <1>1 DEF ReapInv, Thread, TypeOK, Fresh
<1>9. StatsInv'
  BY <1>1 DEF StatsInv, TypeOK, Thread
<1>10. PredInv'
  BY <1>1 DEF PredInv, Listed, TypeOK
<1>11. TimeInv'
  BY <1>1 DEF TimeInv, Listed, TypeOK, Thread
<1> QED BY <1>2, <1>3, <1>4, <1>5, <1>6, <1>7, <1>8, <1>9, <1>10, <1>11

\* find_locked establishes what the write relies on.
LEMMA UpsertFindKeeps ==
  ASSUME IInv, NEW t \in Caller, UpsertFind(t)
  PROVE  IInv'
<1> USE ConstantsAssumption DEF IInv, UpsertFind, Goto
<1>1. t \in Thread /\ s_mutex = t /\ \A r \in Thread \ {t} : pc[r] = "idle"
  BY Exclusive DEF Thread
<1>2. /\ \A s \in FindLocked(icao[t]) : s \in Listed /\ s \in Slot /\ s_pool[s].icao = icao[t]
      /\ FindLocked(icao[t]) = {} => \A s \in Listed : s_pool[s].icao # icao[t]
  BY FindFacts, ListFacts
<1>3. node[t]' \in Slot \cup {NULL} /\ node' = [node EXCEPT ![t] = node[t]']
  BY <1>1, <1>2 DEF TypeOK
<1>4. /\ node[t]' = NULL => \A s \in Listed : s_pool[s].icao # icao[t]
      /\ node[t]' # NULL => node[t]' \in Listed /\ s_pool[node[t]'].icao = icao[t]
  BY <1>1, <1>2, <1>3 DEF TypeOK, NULL, Slot
<1>5. UNCHANGED <<s_pool, s_pool_used, s_list, s_mutex, s_stats, icao, prev, wake, uptime, obs>>
  OBVIOUS
<1>6. Listed' = Listed
  BY <1>5 DEF Listed
<1>7. TypeOK'
  BY <1>1, <1>2, <1>3, <1>4, <1>5, <1>6 DEF TypeOK, Thread, NULL
<1>8. MutexInv'
  BY <1>1, <1>2, <1>3, <1>4, <1>5, <1>6 DEF MutexInv, Thread, TypeOK
<1>9. PoolMatchesList'
  BY <1>1, <1>2, <1>3, <1>4, <1>5, <1>6 DEF PoolMatchesList, Listed
<1>10. OneEntryPerAircraft'
  BY <1>1, <1>2, <1>3, <1>4, <1>5, <1>6 DEF OneEntryPerAircraft, Listed
<1>11. UpsertInv'
  BY <1>1, <1>2, <1>3, <1>4, <1>5, <1>6 DEF UpsertInv, Thread, TypeOK
<1>12. WalkInv'
  BY <1>1, <1>2, <1>3, <1>4, <1>5, <1>6 DEF WalkInv, Listed, Thread, TypeOK
<1>13. ReapInv'
  BY <1>1, <1>2, <1>3, <1>4, <1>5, <1>6 DEF ReapInv, Thread, TypeOK, Fresh
<1>14. StatsInv'
  BY <1>1, <1>2, <1>3, <1>4, <1>5, <1>6 DEF StatsInv, TypeOK, Thread
<1>15. PredInv'
  BY <1>5, <1>6 DEF PredInv
<1>16. TimeInv'
  BY <1>1, <1>2, <1>3, <1>4, <1>5, <1>6 DEF TimeInv, Listed, TypeOK, Thread
<1> QED BY <1>7, <1>8, <1>9, <1>10, <1>11, <1>12, <1>13, <1>14, <1>15, <1>16

\* Overwriting the found entry keeps one entry per aircraft.
LEMMA UpsertUpdateKeeps ==
  ASSUME IInv, NEW t \in Caller, UpsertUpdate(t)
  PROVE  IInv'
<1> USE ConstantsAssumption DEF IInv
<1> DEFINE n == node[t]
<1>1. PICK a \in BOOLEAN :
        s_pool' = [s_pool EXCEPT ![n] =
                     Observed(icao[t], now_ms[t], KalmanUpdate(s_pool[n].update_count, a))]
  BY DEF UpsertUpdate
<1>2. pc[t] = "write" /\ n # NULL
  BY DEF UpsertUpdate
<1>3. t \in Thread /\ s_mutex = t /\ \A r \in Thread \ {t} : pc[r] = "idle"
  BY <1>2, Exclusive DEF Thread
<1>4. /\ s_mutex' = NoThread /\ pc' = [pc EXCEPT ![t] = "idle"]
      /\ icao' = [icao EXCEPT ![t] = NoIcao]
      /\ now_ms' = [now_ms EXCEPT ![t] = 0]
      /\ node' = [node EXCEPT ![t] = NULL]
      /\ obs' = [obs EXCEPT ![icao[t]] = @ + 1]
      /\ s_stats' = [s_stats EXCEPT !.updates = @ + 1]
      /\ UNCHANGED <<s_pool_used, s_list, prev, wake, uptime>>
  BY DEF UpsertUpdate, Return, Unlock, Goto
<1>5. /\ n \in Listed /\ n \in Slot /\ icao[t] \in Icao /\ s_pool[n].icao = icao[t]
      /\ Listed' = Listed /\ Listed \subseteq Slot
  BY <1>2, <1>3, <1>4, ListFacts DEF UpsertInv, Listed
<1> DEFINE c == KalmanUpdate(s_pool[n].update_count, a)
<1>6. c \in 0 .. PRED_MIN_UPDATES /\ c <= s_pool[n].update_count + 1
  BY <1>5, FieldTypes, KalmanFacts
<1>7. /\ Observed(icao[t], now_ms[t], c) \in Entry
      /\ Observed(icao[t], now_ms[t], c).icao = icao[t]
      /\ Observed(icao[t], now_ms[t], c).last_seen = now_ms[t]
      /\ Observed(icao[t], now_ms[t], c).update_count = c
      /\ Observed(icao[t], now_ms[t], c).pred => c >= PRED_MIN_UPDATES
  BY <1>3, <1>5, <1>6, FieldTypes, ObservedFacts
<1> HIDE DEF c
<1>8. /\ s_pool' \in [Slot -> Entry]
      /\ s_pool'[n] = Observed(icao[t], now_ms[t], c)
      /\ \A s \in Slot : s # n => s_pool'[s] = s_pool[s]
  BY <1>1, <1>5, <1>7 DEF TypeOK, c
<1> HIDE DEF n
<1>9. TypeOK'
  <2>1. s_stats' \in Stats
    BY <1>4, CountFacts DEF TypeOK
  <2>3. obs' \in [Icao -> Nat]
    BY <1>4, <1>5 DEF TypeOK
  <2>2. node' \in [Thread -> Slot \cup {NULL}] /\ now_ms' \in [Thread -> Nat]
    BY <1>4 DEF TypeOK
  <2> QED BY <1>4, <1>8, <2>1, <2>2, <2>3 DEF TypeOK
<1>10. MutexInv'
  BY <1>3, <1>4 DEF MutexInv, Thread, TypeOK
<1>11. PoolMatchesList'
  BY <1>4, <1>5 DEF PoolMatchesList
<1>12. OneEntryPerAircraft'
  BY <1>5, <1>7, <1>8 DEF OneEntryPerAircraft
<1>13. UpsertInv' /\ WalkInv' /\ ReapInv'
  BY <1>2, <1>3, <1>4 DEF UpsertInv, WalkInv, ReapInv, TypeOK, Thread
<1>14. StatsInv'
  BY <1>2, <1>3, <1>4 DEF StatsInv, TypeOK, Stats, Thread
<1>15. PredInv'
  <2> SUFFICES ASSUME NEW s \in Listed
               PROVE  /\ s_pool'[s].icao \in Icao
                      /\ s_pool'[s].update_count <= obs'[s_pool'[s].icao]
                      /\ s_pool'[s].pred => s_pool'[s].update_count >= PRED_MIN_UPDATES
    BY <1>5 DEF PredInv
  <2>1. obs \in [Icao -> Nat] /\ s_pool[s].update_count <= obs[s_pool[s].icao]
    BY DEF TypeOK, PredInv
  <2>2. CASE s = n
    BY <2>1, <2>2, <1>4, <1>5, <1>6, <1>7, <1>8, FieldTypes
  <2>3. CASE s # n
    <3>1. s_pool'[s] = s_pool[s] /\ s_pool[s].icao \in Icao
      BY <2>3, <1>5, <1>8 DEF PredInv
    <3>2. obs'[s_pool[s].icao] >= obs[s_pool[s].icao]
      BY <2>1, <3>1, <1>4, <1>5
    <3>3. s_pool[s].update_count \in Nat
      BY <1>5, FieldTypes
    <3> QED BY <2>1, <3>1, <3>2, <3>3, <1>4 DEF PredInv, TypeOK
  <2> QED BY <2>2, <2>3
<1>16. TimeInv'
  <2>1. \A s \in Listed : wake - REAPER_TICK_MS - STALE_MS <= s_pool'[s].last_seen
    BY <1>2, <1>3, <1>5, <1>7, <1>8, FieldTypes DEF TimeInv
  <2>2. \A r \in Thread : pc'[r] = "idle"
    BY <1>3, <1>4 DEF TypeOK
  <2> QED BY <2>1, <2>2, <1>4, <1>5 DEF TimeInv, Thread
<1> QED BY <1>9, <1>10, <1>11, <1>12, <1>13, <1>14, <1>15, <1>16

\* A new entry takes a free slot and an address no listed entry has.
LEMMA UpsertInsertKeeps ==
  ASSUME IInv, NEW t \in Caller, UpsertInsert(t)
  PROVE  IInv'
<1> USE ConstantsAssumption DEF IInv
<1>1. PICK n \in PoolAlloc(s_pool_used), a \in BOOLEAN :
        /\ s_pool_used' = [s_pool_used EXCEPT ![n] = TRUE]
        /\ s_pool' = [s_pool EXCEPT ![n] = Observed(icao[t], now_ms[t], KalmanUpdate(0, a))]
        /\ s_list' = Append(s_list, n)
  BY DEF UpsertInsert
<1>2. pc[t] = "write" /\ node[t] = NULL
  BY DEF UpsertInsert
<1>3. t \in Thread /\ s_mutex = t /\ \A r \in Thread \ {t} : pc[r] = "idle"
  BY <1>2, Exclusive DEF Thread
<1>4. /\ s_mutex' = NoThread /\ pc' = [pc EXCEPT ![t] = "idle"]
      /\ icao' = [icao EXCEPT ![t] = NoIcao]
      /\ now_ms' = [now_ms EXCEPT ![t] = 0]
      /\ node' = [node EXCEPT ![t] = NULL]
      /\ obs' = [obs EXCEPT ![icao[t]] = 1]
      /\ s_stats' = [s_stats EXCEPT !.inserts = @ + 1]
      /\ UNCHANGED <<prev, wake, uptime>>
  BY DEF UpsertInsert, Return, Unlock, Goto
<1>5. /\ n \in Slot /\ n \notin Listed /\ Listed \subseteq Slot
      /\ icao[t] \in Icao /\ \A s \in Listed : s_pool[s].icao # icao[t]
  BY <1>2, <1>3, ListFacts DEF PoolAlloc, PoolMatchesList, UpsertInv
<1>6. /\ s_list' \in Seq(Slot) /\ Len(s_list') = Len(s_list) + 1
      /\ DOMAIN s_list' = 1 .. (Len(s_list) + 1)
      /\ \A k \in 1 .. Len(s_list) : s_list'[k] = s_list[k]
      /\ s_list'[Len(s_list) + 1] = n
  BY <1>1, <1>5, ListFacts
<1>7. Injective(s_list')
  BY <1>5, <1>6, ListFacts DEF Injective, RangeOf
<1>8. Listed' = Listed \cup {n}
  <2>1. ASSUME NEW k \in DOMAIN s_list' PROVE s_list'[k] \in Listed \cup {n}
    BY <1>6, ListFacts DEF RangeOf
  <2>2. ASSUME NEW k \in DOMAIN s_list PROVE s_list[k] \in Listed'
    BY <1>6, ListFacts DEF Listed
  <2>3. n \in Listed'
    BY <1>6, ListFacts DEF Listed
  <2>4. Listed \subseteq Listed'
    BY <2>2 DEF Listed
  <2>5. Listed' \subseteq Listed \cup {n}
    BY <2>1, Zenon DEF Listed
  <2> QED BY <2>3, <2>4, <2>5
<1> DEFINE c == KalmanUpdate(0, a)
<1>9. c \in 0 .. PRED_MIN_UPDATES /\ c <= 1
  BY KalmanFacts
<1>10. /\ Observed(icao[t], now_ms[t], c) \in Entry
       /\ Observed(icao[t], now_ms[t], c).icao = icao[t]
       /\ Observed(icao[t], now_ms[t], c).last_seen = now_ms[t]
       /\ Observed(icao[t], now_ms[t], c).update_count = c
       /\ Observed(icao[t], now_ms[t], c).pred => c >= PRED_MIN_UPDATES
  BY <1>3, <1>5, <1>9, FieldTypes, ObservedFacts
<1> HIDE DEF c
<1>11. /\ s_pool' \in [Slot -> Entry]
       /\ s_pool'[n] = Observed(icao[t], now_ms[t], c)
       /\ \A s \in Slot : s # n => s_pool'[s] = s_pool[s]
  BY <1>1, <1>5, <1>10 DEF TypeOK, c
<1>12. TypeOK'
  <2>1. s_stats' \in Stats /\ obs' \in [Icao -> Nat]
    BY <1>4, <1>5, CountFacts DEF TypeOK
  <2>2. node' \in [Thread -> Slot \cup {NULL}] /\ now_ms' \in [Thread -> Nat]
    BY <1>4 DEF TypeOK
  <2>3. s_pool_used' \in [Slot -> BOOLEAN]
    BY <1>1, <1>5 DEF TypeOK
  <2> QED BY <1>4, <1>6, <1>11, <2>1, <2>2, <2>3 DEF TypeOK
<1>13. MutexInv'
  BY <1>3, <1>4 DEF MutexInv, Thread, TypeOK
<1>14. PoolMatchesList'
  BY <1>1, <1>5, <1>7, <1>8 DEF PoolMatchesList, Injective, TypeOK
<1>15. OneEntryPerAircraft'
  BY <1>5, <1>8, <1>10, <1>11 DEF OneEntryPerAircraft
<1>16. UpsertInv' /\ WalkInv' /\ ReapInv'
  BY <1>2, <1>3, <1>4 DEF UpsertInv, WalkInv, ReapInv, TypeOK, Thread
<1>17. StatsInv'
  <2>1. s_stats'.inserts = s_stats.inserts + 1 /\ s_stats'.stale_evicts = s_stats.stale_evicts
    BY <1>4 DEF TypeOK, Stats
  <2>2. \A r \in Caller : pc[r] # "clear"
    BY <1>2, <1>3 DEF Thread
  <2> QED BY <2>1, <2>2, <1>6, FieldTypes, ListFacts DEF StatsInv
<1>18. PredInv'
  BY <1>4, <1>5, <1>8, <1>9, <1>10, <1>11 DEF PredInv, TypeOK
<1>19. TimeInv'
  <2>1. \A s \in Listed' : wake - REAPER_TICK_MS - STALE_MS <= s_pool'[s].last_seen
    BY <1>2, <1>3, <1>5, <1>8, <1>10, <1>11, FieldTypes DEF TimeInv
  <2>2. \A r \in Thread : pc'[r] = "idle"
    BY <1>3, <1>4 DEF TypeOK
  <2> QED BY <2>1, <2>2, <1>4 DEF TimeInv, Thread
<1> QED BY <1>12, <1>13, <1>14, <1>15, <1>16, <1>17, <1>18, <1>19

\* A refusal changes nothing but its counter.
LEMMA UpsertFullKeeps ==
  ASSUME IInv, NEW t \in Caller, UpsertFull(t)
  PROVE  IInv'
<1> USE ConstantsAssumption DEF IInv, UpsertFull, Goto, Return, Unlock
<1>1. t \in Thread /\ s_mutex = t /\ \A r \in Thread \ {t} : pc[r] = "idle"
  BY Exclusive DEF Thread
<1>2. TypeOK'
  <2>1. s_stats' \in Stats
    BY CountFacts DEF TypeOK
  <2> QED BY <1>1, <2>1 DEF TypeOK, NULL, Thread
<1>3. MutexInv'
  BY <1>1 DEF MutexInv, Thread, TypeOK
<1>4. PoolMatchesList'
  BY <1>1 DEF PoolMatchesList, Listed
<1>5. OneEntryPerAircraft'
  BY <1>1 DEF OneEntryPerAircraft, Listed
<1>6. UpsertInv'
  BY <1>1 DEF UpsertInv, Listed, Thread, TypeOK, NULL
<1>7. WalkInv'
  BY <1>1 DEF WalkInv, Listed, Thread, TypeOK
<1>8. ReapInv'
  BY <1>1 DEF ReapInv, Thread, TypeOK, Fresh
<1>9. StatsInv'
  BY <1>1 DEF StatsInv, TypeOK, Thread
<1>10. PredInv'
  BY <1>1 DEF PredInv, Listed, TypeOK
<1>11. TimeInv'
  BY <1>1 DEF TimeInv, Listed, TypeOK, Thread
<1> QED BY <1>2, <1>3, <1>4, <1>5, <1>6, <1>7, <1>8, <1>9, <1>10, <1>11

\* Entering a clear keeps the invariant.
LEMMA ClearLockKeeps ==
  ASSUME IInv, NEW t \in Caller, ClearLock(t)
  PROVE  IInv'
<1> USE ConstantsAssumption DEF IInv, ClearLock, Lock, Goto
<1>1. \A r \in Thread : pc[r] = "idle"
  BY AllIdle
<1>2. First(s_list) \in Slot \cup {NULL}
  BY WalkStaysOnList DEF TypeOK
<1>3. TypeOK'
  BY <1>1, <1>2 DEF TypeOK, Thread, NULL
<1>4. MutexInv'
  BY <1>1, <1>2 DEF MutexInv, Thread, TypeOK
<1>5. PoolMatchesList'
  BY <1>1, <1>2 DEF PoolMatchesList, Listed
<1>6. OneEntryPerAircraft'
  BY <1>1, <1>2 DEF OneEntryPerAircraft, Listed
<1>7. UpsertInv'
  BY <1>1, <1>2 DEF UpsertInv, Listed, Thread, TypeOK, NULL
<1>8. WalkInv'
  BY <1>1, <1>2 DEF WalkInv, Listed, Thread, TypeOK
<1>9. ReapInv'
  BY <1>1, <1>2 DEF ReapInv, Thread, TypeOK, Fresh
<1>10. StatsInv'
  BY <1>1, <1>2 DEF StatsInv, TypeOK, Thread
<1>11. PredInv'
  BY <1>1, <1>2 DEF PredInv, Listed, TypeOK
<1>12. TimeInv'
  BY <1>1, <1>2 DEF TimeInv, Listed, TypeOK, Thread
<1> QED BY <1>3, <1>4, <1>5, <1>6, <1>7, <1>8, <1>9, <1>10, <1>11, <1>12

\* A clear always removes the head of the list.
LEMMA ClearStepKeeps ==
  ASSUME IInv, NEW t \in Caller, ClearStep(t)
  PROVE  IInv'
<1> USE ConstantsAssumption DEF IInv
<1>1. pc[t] = "clear" /\ node[t] # NULL
  BY DEF ClearStep
<1>2. t \in Thread /\ s_mutex = t /\ \A r \in Thread \ {t} : pc[r] = "idle"
  BY <1>1, Exclusive DEF Thread
<1>3. 1 \in DOMAIN s_list /\ node[t] = s_list[1] /\ node[t] \in Slot
  BY <1>1, <1>2, ListFacts DEF WalkInv, First
<1>4. s_list' = SlistRemove(s_list, NULL, s_list[1])
  BY <1>3, ListFacts, PositionUnique DEF ClearStep, SlistFindAndRemove
<1>5. /\ s_list' = [j \in 1 .. (Len(s_list) - 1) |->
                      IF j < 1 THEN s_list[j] ELSE s_list[j + 1]]
      /\ s_list' \in Seq(Slot) /\ Len(s_list') = Len(s_list) - 1 /\ Injective(s_list')
      /\ RangeOf(s_list') = RangeOf(s_list) \ {s_list[1]}
  <2>1. NULL \in Slot \cup {NULL} /\ NULL = IF 1 = 1 THEN NULL ELSE s_list[1 - 1]
    OBVIOUS
  <2> QED BY ONLY <2>1, <1>3, <1>4, ListFacts, RemoveOne, IInv
<1>6. Listed' = Listed \ {node[t]}
  BY <1>3, <1>5, ListFacts DEF Listed, RangeOf
<1>7. Successor(s_list, node[t]) = First(s_list')
  <2>1. Successor(s_list, node[t]) = IF 1 = Len(s_list) THEN NULL ELSE s_list[1 + 1]
    BY <1>3, ListFacts, WalkStaysOnList
  <2>2. CASE Len(s_list) = 1
    BY <2>1, <2>2, <1>5 DEF First
  <2>3. CASE Len(s_list) # 1
    <3>1. 1 \in 1 .. (Len(s_list) - 1) /\ Len(s_list') # 0
      BY <2>3, <1>3, <1>5, ListFacts
    <3>2. s_list'[1] = s_list[1 + 1]
      BY <3>1, <1>5
    <3>3. s_list' # <<>>
      BY <3>1
    <3> QED BY <2>1, <2>3, <3>2, <3>3 DEF First
  <2> QED BY <2>2, <2>3
<1>8. /\ node' = [node EXCEPT ![t] = First(s_list')]
      /\ s_pool_used' = [s_pool_used EXCEPT ![node[t]] = FALSE]
      /\ UNCHANGED <<s_pool, s_mutex, s_stats, pc, icao, now_ms, prev, wake, uptime, obs>>
  BY <1>7 DEF ClearStep, PoolFree
<1>9. TypeOK'
  BY <1>2, <1>3, <1>5, <1>8, WalkStaysOnList DEF TypeOK
<1>10. MutexInv'
  BY <1>8 DEF MutexInv
<1>11. PoolMatchesList'
  BY <1>3, <1>5, <1>6, <1>8 DEF PoolMatchesList, Injective, TypeOK
<1>12. OneEntryPerAircraft'
  BY <1>6, <1>8 DEF OneEntryPerAircraft
<1>13. UpsertInv'
  BY <1>1, <1>2, <1>8 DEF UpsertInv, TypeOK
<1>14. WalkInv'
  BY <1>1, <1>2, <1>8 DEF WalkInv, TypeOK
<1>15. ReapInv' /\ StatsInv'
  BY <1>1, <1>2, <1>8 DEF ReapInv, StatsInv, Thread
<1>16. PredInv' /\ TimeInv'
  BY <1>6, <1>8 DEF PredInv, TimeInv
<1> QED BY <1>9, <1>10, <1>11, <1>12, <1>13, <1>14, <1>15, <1>16

\* A clear ends with an empty list, which the zeroed counters match.
LEMMA ClearUnlockKeeps ==
  ASSUME IInv, NEW t \in Caller, ClearUnlock(t)
  PROVE  IInv'
<1> USE ConstantsAssumption DEF IInv, ClearUnlock, Goto, Return, Unlock
<1>1. t \in Thread /\ s_mutex = t /\ \A r \in Thread \ {t} : pc[r] = "idle"
  BY Exclusive DEF Thread
<1>2. s_list = <<>>
  <2>1. node[t] = First(s_list) /\ node[t] = NULL
    BY <1>1 DEF WalkInv
  <2>2. s_list # <<>> => s_list[1] \in Slot
    BY ListFacts
  <2> QED BY <2>1, <2>2 DEF First, NULL, Slot
<1>3. TypeOK'
  BY <1>1, <1>2 DEF TypeOK, Stats, ZeroStats, NULL, Thread
<1>4. MutexInv'
  BY <1>1, <1>2 DEF MutexInv, Thread, TypeOK
<1>5. PoolMatchesList'
  BY <1>1, <1>2 DEF PoolMatchesList, Listed
<1>6. OneEntryPerAircraft'
  BY <1>1, <1>2 DEF OneEntryPerAircraft, Listed
<1>7. UpsertInv'
  BY <1>1, <1>2 DEF UpsertInv, Listed, Thread, TypeOK, NULL
<1>8. WalkInv'
  BY <1>1, <1>2 DEF WalkInv, Listed, Thread, TypeOK
<1>9. ReapInv'
  BY <1>1, <1>2 DEF ReapInv, Thread, TypeOK, Fresh
<1>10. StatsInv'
  BY <1>1, <1>2 DEF StatsInv, ZeroStats
<1>11. PredInv'
  BY <1>1, <1>2 DEF PredInv, Listed, TypeOK
<1>12. TimeInv'
  BY <1>1, <1>2 DEF TimeInv, Listed, TypeOK, Thread
<1> QED BY <1>3, <1>4, <1>5, <1>6, <1>7, <1>8, <1>9, <1>10, <1>11, <1>12

\* Entering a walk keeps the invariant.
LEMMA WalkLockKeeps ==
  ASSUME IInv, NEW t \in Caller, WalkLock(t)
  PROVE  IInv'
<1> USE ConstantsAssumption DEF IInv, WalkLock, Lock, Goto
<1>1. \A r \in Thread : pc[r] = "idle"
  BY AllIdle
<1>2. First(s_list) \in Listed \cup {NULL} /\ Listed \subseteq Slot
  BY WalkStaysOnList DEF TypeOK, Listed, RangeOf
<1>3. TypeOK'
  BY <1>1, <1>2 DEF TypeOK, Thread, NULL
<1>4. MutexInv'
  BY <1>1, <1>2 DEF MutexInv, Thread, TypeOK
<1>5. PoolMatchesList'
  BY <1>1, <1>2 DEF PoolMatchesList, Listed
<1>6. OneEntryPerAircraft'
  BY <1>1, <1>2 DEF OneEntryPerAircraft, Listed
<1>7. UpsertInv'
  BY <1>1, <1>2 DEF UpsertInv, Listed, Thread, TypeOK, NULL
<1>8. WalkInv'
  BY <1>1, <1>2 DEF WalkInv, Thread, TypeOK, Listed
<1>9. ReapInv'
  BY <1>1, <1>2 DEF ReapInv, Thread, TypeOK, Fresh
<1>10. StatsInv'
  BY <1>1, <1>2 DEF StatsInv, TypeOK, Thread
<1>11. PredInv'
  BY <1>1, <1>2 DEF PredInv, Listed, TypeOK
<1>12. TimeInv'
  BY <1>1, <1>2 DEF TimeInv, Listed, TypeOK, Thread
<1> QED BY <1>3, <1>4, <1>5, <1>6, <1>7, <1>8, <1>9, <1>10, <1>11, <1>12

\* A walk moves along the list.
LEMMA WalkStepKeeps ==
  ASSUME IInv, NEW t \in Caller, WalkStep(t)
  PROVE  IInv'
<1> USE ConstantsAssumption DEF IInv, WalkStep
<1>1. t \in Thread /\ s_mutex = t /\ \A r \in Thread \ {t} : pc[r] = "idle"
  BY Exclusive DEF Thread
<1>2. node[t] \in Listed
  BY <1>1 DEF WalkInv
<1>3. PICK k \in DOMAIN s_list : node[t] = s_list[k]
  BY <1>2 DEF Listed
<1>4. Successor(s_list, node[t]) = IF k = Len(s_list) THEN NULL ELSE s_list[k + 1]
  BY <1>3, WalkStaysOnList, ListFacts
<1>5. Successor(s_list, node[t]) \in Listed \cup {NULL} /\ Listed \subseteq Slot
  BY <1>3, <1>4, ListFacts DEF RangeOf
<1>6. TypeOK'
  BY <1>1, <1>2, <1>3, <1>4, <1>5 DEF TypeOK, Thread, NULL
<1>7. MutexInv'
  BY <1>1, <1>2, <1>3, <1>4, <1>5 DEF MutexInv, Thread, TypeOK
<1>8. PoolMatchesList'
  BY <1>1, <1>2, <1>3, <1>4, <1>5 DEF PoolMatchesList, Listed
<1>9. OneEntryPerAircraft'
  BY <1>1, <1>2, <1>3, <1>4, <1>5 DEF OneEntryPerAircraft, Listed
<1>10. UpsertInv'
  BY <1>1, <1>2, <1>3, <1>4, <1>5 DEF UpsertInv, Listed, Thread, TypeOK, NULL
<1>11. WalkInv'
  BY <1>1, <1>2, <1>3, <1>4, <1>5 DEF WalkInv, Thread, TypeOK, Listed
<1>12. ReapInv'
  BY <1>1, <1>2, <1>3, <1>4, <1>5 DEF ReapInv, Thread, TypeOK, Fresh
<1>13. StatsInv'
  BY <1>1, <1>2, <1>3, <1>4, <1>5 DEF StatsInv, TypeOK, Thread
<1>14. PredInv'
  BY <1>1, <1>2, <1>3, <1>4, <1>5 DEF PredInv, Listed, TypeOK
<1>15. TimeInv'
  BY DEF TimeInv, Listed
<1> QED BY <1>6, <1>7, <1>8, <1>9, <1>10, <1>11, <1>12, <1>13, <1>14, <1>15

\* Leaving a walk keeps the invariant.
LEMMA WalkUnlockKeeps ==
  ASSUME IInv, NEW t \in Caller, WalkUnlock(t)
  PROVE  IInv'
<1> USE ConstantsAssumption DEF IInv, WalkUnlock, Goto, Return, Unlock
<1>1. t \in Thread /\ s_mutex = t /\ \A r \in Thread \ {t} : pc[r] = "idle"
  BY Exclusive DEF Thread
<1>2. TypeOK'
  BY <1>1 DEF TypeOK, Thread, NULL
<1>3. MutexInv'
  BY <1>1 DEF MutexInv, Thread, TypeOK
<1>4. PoolMatchesList'
  BY <1>1 DEF PoolMatchesList, Listed
<1>5. OneEntryPerAircraft'
  BY <1>1 DEF OneEntryPerAircraft, Listed
<1>6. UpsertInv'
  BY <1>1 DEF UpsertInv, Listed, Thread, TypeOK, NULL
<1>7. WalkInv'
  BY <1>1 DEF WalkInv, Listed, Thread, TypeOK
<1>8. ReapInv'
  BY <1>1 DEF ReapInv, Thread, TypeOK, Fresh
<1>9. StatsInv'
  BY <1>1 DEF StatsInv, TypeOK, Thread
<1>10. PredInv'
  BY <1>1 DEF PredInv, Listed, TypeOK
<1>11. TimeInv'
  BY <1>1 DEF TimeInv, Listed, TypeOK, Thread
<1> QED BY <1>2, <1>3, <1>4, <1>5, <1>6, <1>7, <1>8, <1>9, <1>10, <1>11

\* The reaper starts at the head with no predecessor.
LEMMA ReapLockKeeps ==
  ASSUME IInv, ReapLock
  PROVE  IInv'
<1> USE ConstantsAssumption DEF IInv, ReapLock, Lock, Goto
<1>1. \A r \in Thread : pc[r] = "idle"
  BY AllIdle
<1>2. First(s_list) \in Slot \cup {NULL} /\ Len(s_list) \in Nat
  BY WalkStaysOnList DEF TypeOK
<1>3. TypeOK'
  BY <1>1, <1>2 DEF TypeOK, Thread, NULL
<1>4. MutexInv'
  BY <1>1, <1>2 DEF MutexInv, Thread, TypeOK
<1>5. PoolMatchesList'
  BY <1>1, <1>2 DEF PoolMatchesList, Listed
<1>6. OneEntryPerAircraft'
  BY <1>1, <1>2 DEF OneEntryPerAircraft, Listed
<1>7. UpsertInv'
  BY <1>1, <1>2 DEF UpsertInv, Listed, Thread, TypeOK, NULL
<1>8. WalkInv'
  BY <1>1, <1>2 DEF WalkInv, Listed, Thread, TypeOK
<1>9. ReapInv'
  <2>1. /\ node'[Reaper] = IF 1 = Len(s_list) + 1 THEN NULL ELSE s_list[1]
        /\ prev' = NULL
    BY <1>1, <1>2 DEF First, TypeOK, Thread
  <2> QED BY <2>1, <1>2 DEF ReapInv
<1>10. StatsInv'
  BY <1>1, <1>2 DEF StatsInv, TypeOK, Thread
<1>11. PredInv'
  BY <1>1, <1>2 DEF PredInv, Listed, TypeOK
<1>12. TimeInv'
  BY <1>1, <1>2 DEF TimeInv, Listed, TypeOK, Thread
<1> QED BY <1>3, <1>4, <1>5, <1>6, <1>7, <1>8, <1>9, <1>10, <1>11, <1>12

\* An eviction unlinks exactly the stale entry, the predecessor being right.
LEMMA ReapEvictKeeps ==
  ASSUME IInv, ReapEvict
  PROVE  IInv'
<1> USE ConstantsAssumption DEF IInv
<1>1. pc[Reaper] = "reap" /\ node[Reaper] # NULL
  BY DEF ReapEvict
<1>2. /\ Reaper \in Thread /\ s_mutex = Reaper /\ Caller = Thread \ {Reaper}
      /\ \A r \in Thread \ {Reaper} : pc[r] = "idle"
  BY <1>1, Exclusive DEF Thread
<1>3. PICK k \in 1 .. (Len(s_list) + 1) :
        /\ node[Reaper] = IF k = Len(s_list) + 1 THEN NULL ELSE s_list[k]
        /\ prev = IF k = 1 THEN NULL ELSE s_list[k - 1]
        /\ \A j \in 1 .. (k - 1) : Fresh(s_list[j])
  BY <1>1 DEF ReapInv
<1>4. k \in DOMAIN s_list /\ node[Reaper] = s_list[k] /\ node[Reaper] \in Slot
  BY <1>1, <1>3, ListFacts
<1>5. s_list' = SlistRemove(s_list, prev, s_list[k]) /\ prev \in Slot \cup {NULL}
  BY <1>4 DEF ReapEvict, TypeOK
<1>6. /\ s_list' = [j \in 1 .. (Len(s_list) - 1) |->
                      IF j < k THEN s_list[j] ELSE s_list[j + 1]]
      /\ s_list' \in Seq(Slot) /\ Len(s_list') = Len(s_list) - 1 /\ Injective(s_list')
      /\ RangeOf(s_list') = RangeOf(s_list) \ {s_list[k]}
  <2>1. prev = IF k = 1 THEN NULL ELSE s_list[k - 1]
    BY <1>3
  <2> QED BY ONLY <2>1, <1>4, <1>5, ListFacts, RemoveOne, IInv
<1>7. Listed' = Listed \ {node[Reaper]}
  BY <1>4, <1>6, ListFacts DEF Listed, RangeOf
<1>8. Successor(s_list, node[Reaper]) = IF k = Len(s_list) THEN NULL ELSE s_list[k + 1]
  BY <1>4, ListFacts, WalkStaysOnList
<1>9. /\ node' = [node EXCEPT ![Reaper] = Successor(s_list, node[Reaper])]
      /\ s_pool_used' = [s_pool_used EXCEPT ![node[Reaper]] = FALSE]
      /\ s_stats' = [s_stats EXCEPT !.stale_evicts = @ + 1]
      /\ UNCHANGED <<s_pool, s_mutex, pc, icao, now_ms, prev, wake, uptime, obs>>
  BY DEF ReapEvict, PoolFree
<1>10. Successor(s_list, node[Reaper]) \in Slot \cup {NULL}
  BY <1>4, <1>8, ListFacts
<1>11. TypeOK'
  BY <1>2, <1>4, <1>6, <1>9, <1>10, CountFacts DEF TypeOK
<1>12. MutexInv'
  BY <1>9 DEF MutexInv
<1>13. PoolMatchesList'
  BY <1>4, <1>6, <1>7, <1>9 DEF PoolMatchesList, Injective, TypeOK
<1>14. OneEntryPerAircraft'
  BY <1>7, <1>9 DEF OneEntryPerAircraft
<1>15. UpsertInv' /\ WalkInv'
  BY <1>1, <1>2, <1>9 DEF UpsertInv, WalkInv, TypeOK
<1>16. ReapInv'
  <2>1. k \in 1 .. (Len(s_list') + 1) /\ k - 1 \in Nat
    BY <1>4, <1>6, ListFacts
  <2>2. node'[Reaper] = IF k = Len(s_list') + 1 THEN NULL ELSE s_list'[k]
    <3>1. node'[Reaper] = IF k = Len(s_list) THEN NULL ELSE s_list[k + 1]
      BY <1>2, <1>8, <1>9 DEF TypeOK
    <3>2. CASE k = Len(s_list)
      BY <3>1, <3>2, <1>6
    <3>3. CASE k # Len(s_list)
      <4>1. k \in 1 .. (Len(s_list) - 1)
        BY <3>3, <1>4, ListFacts
      <4>2. s_list'[k] = s_list[k + 1]
        BY <4>1, <1>6
      <4>3. Len(s_list') = Len(s_list) - 1
        BY <1>6
      <4>4. k # Len(s_list') + 1
        BY <4>1, <4>3, ListFacts
      <4> QED BY <3>1, <3>3, <4>2, <4>4
    <3> QED BY <3>2, <3>3
  <2>3. \A j \in 1 .. (k - 1) : s_list'[j] = s_list[j]
    BY <1>4, <1>6, ListFacts
  <2>4. prev' = IF k = 1 THEN NULL ELSE s_list'[k - 1]
    BY <2>1, <2>3, <1>3, <1>4, <1>9
  <2>5. \A j \in 1 .. (k - 1) : Fresh(s_list[j])'
    BY <2>3, <1>3, <1>9 DEF Fresh
  <2> QED BY <2>1, <2>2, <2>4, <2>5 DEF ReapInv
<1>17. StatsInv'
  <2>1. s_stats'.inserts = s_stats.inserts /\ s_stats'.stale_evicts = s_stats.stale_evicts + 1
    BY <1>9 DEF TypeOK, Stats
  <2>2. \A r \in Caller : pc[r] # "clear"
    BY <1>2
  <2>3. s_stats.inserts - s_stats.stale_evicts = Len(s_list)
    BY <2>2 DEF StatsInv
  <2>4. Len(s_list') = Len(s_list) - 1
    BY <1>6
  <2>5. s_stats'.inserts - s_stats'.stale_evicts = Len(s_list')
    BY <2>1, <2>3, <2>4, FieldTypes, ListFacts
  <2> QED BY <2>5 DEF StatsInv
<1>18. PredInv' /\ TimeInv'
  BY <1>7, <1>9 DEF PredInv, TimeInv
<1> QED BY <1>11, <1>12, <1>13, <1>14, <1>15, <1>16, <1>17, <1>18

\* The reaper steps over a fresh entry.
LEMMA ReapKeepKeeps ==
  ASSUME IInv, ReapKeep
  PROVE  IInv'
<1> USE ConstantsAssumption DEF IInv, ReapKeep
<1>1. Reaper \in Thread /\ s_mutex = Reaper /\ \A r \in Thread \ {Reaper} : pc[r] = "idle"
  BY Exclusive DEF Thread
<1>2. Injective(s_list) /\ Len(s_list) \in Nat
  BY DEF PoolMatchesList, Injective, TypeOK
<1>3. PICK k \in 1 .. (Len(s_list) + 1) :
        /\ node[Reaper] = IF k = Len(s_list) + 1 THEN NULL ELSE s_list[k]
        /\ \A j \in 1 .. (k - 1) : Fresh(s_list[j])
  BY DEF ReapInv
<1>4. k \in DOMAIN s_list /\ node[Reaper] = s_list[k] /\ node[Reaper] \in Slot
  BY <1>2, <1>3 DEF TypeOK
<1>5. node'[Reaper] = IF k = Len(s_list) THEN NULL ELSE s_list[k + 1]
  BY <1>1, <1>2, <1>4, WalkStaysOnList DEF TypeOK
<1>6. node' = [node EXCEPT ![Reaper] = node'[Reaper]] /\ node'[Reaper] \in Slot \cup {NULL}
  BY <1>1, <1>2, <1>4, <1>5 DEF TypeOK
<1>7. TypeOK'
  BY <1>1, <1>4, <1>6 DEF TypeOK
<1>8. MutexInv'
  BY <1>1, <1>2, <1>3, <1>4, <1>5, <1>6 DEF MutexInv, Thread, TypeOK
<1>9. PoolMatchesList'
  BY <1>1, <1>2, <1>3, <1>4, <1>5, <1>6 DEF PoolMatchesList, Listed
<1>10. OneEntryPerAircraft'
  BY <1>1, <1>2, <1>3, <1>4, <1>5, <1>6 DEF OneEntryPerAircraft, Listed
<1>11. UpsertInv'
  BY <1>1, <1>2, <1>3, <1>4, <1>5, <1>6 DEF UpsertInv, Listed, Thread, TypeOK, NULL
<1>12. WalkInv'
  BY <1>1, <1>2, <1>3, <1>4, <1>5, <1>6 DEF WalkInv, Listed, Thread, TypeOK
<1>13. ReapInv'
  <2>1. Fresh(s_list[k])
    BY <1>4 DEF Stale, Fresh, TypeOK, Entry, Thread
  <2>2. \A j \in 1 .. k : Fresh(s_list[j])'
    BY <1>2, <1>3, <2>1 DEF Fresh
  <2>3. /\ node'[Reaper] = IF k + 1 = Len(s_list) + 1 THEN NULL ELSE s_list[k + 1]
        /\ prev' = IF k + 1 = 1 THEN NULL ELSE s_list[(k + 1) - 1]
        /\ k + 1 \in 1 .. (Len(s_list) + 1)
        /\ (k + 1) - 1 = k
    BY <1>2, <1>4, <1>5
  <2> QED BY <2>2, <2>3 DEF ReapInv
<1>14. StatsInv'
  BY <1>1, <1>2, <1>3, <1>4, <1>5, <1>6 DEF StatsInv, TypeOK, Thread
<1>15. PredInv'
  BY <1>1, <1>2, <1>3, <1>4, <1>5, <1>6 DEF PredInv, Listed, TypeOK
<1>16. TimeInv'
  BY <1>1 DEF TimeInv, Listed
<1> QED BY <1>7, <1>8, <1>9, <1>10, <1>11, <1>12, <1>13, <1>14, <1>15, <1>16

\* After a pass every listed entry is within the threshold.
LEMMA ReapUnlockKeeps ==
  ASSUME IInv, ReapUnlock
  PROVE  IInv'
<1> USE ConstantsAssumption DEF IInv, ReapUnlock, Goto, Return, Unlock
<1>1. Reaper \in Thread /\ s_mutex = Reaper /\ \A r \in Thread \ {Reaper} : pc[r] = "idle"
  BY Exclusive DEF Thread
<1>2. \A s \in Listed : Fresh(s)
  BY ListFacts DEF ReapInv, RangeOf, NULL, Slot
<1>3. Listed' = Listed /\ Listed \subseteq Slot /\ uptime = wake /\ now_ms[Reaper] = uptime
  BY ListFacts DEF TimeInv, Listed
<1>4. TypeOK'
  BY <1>1, <1>2, <1>3 DEF TypeOK, Thread, NULL
<1>5. MutexInv'
  BY <1>1, <1>2, <1>3 DEF MutexInv, Thread, TypeOK
<1>6. PoolMatchesList'
  BY <1>1, <1>2, <1>3 DEF PoolMatchesList, Listed
<1>7. OneEntryPerAircraft'
  BY <1>1, <1>2, <1>3 DEF OneEntryPerAircraft, Listed
<1>8. UpsertInv'
  BY <1>1, <1>2, <1>3 DEF UpsertInv, Listed, Thread, TypeOK, NULL
<1>9. WalkInv'
  BY <1>1, <1>2, <1>3 DEF WalkInv, Listed, Thread, TypeOK
<1>10. ReapInv'
  BY <1>1, <1>2, <1>3 DEF ReapInv, Thread, TypeOK, Fresh
<1>11. StatsInv'
  BY <1>1, <1>2, <1>3 DEF StatsInv, TypeOK, Thread
<1>12. PredInv'
  BY <1>1, <1>2, <1>3 DEF PredInv, Listed, TypeOK
<1>13. TimeInv'
  <2>1. \A s \in Listed : wake - STALE_MS <= s_pool[s].last_seen
    BY <1>2, <1>3, FieldTypes DEF Fresh
  <2>2. wake' = wake + REAPER_TICK_MS /\ uptime' = wake /\ s_pool' = s_pool
    BY <1>3
  <2>3. \A r \in Thread : pc'[r] = "idle"
    BY <1>1 DEF TypeOK
  <2> QED BY <2>1, <2>2, <2>3, <1>3, FieldTypes DEF TimeInv, Thread
<1> QED BY <1>4, <1>5, <1>6, <1>7, <1>8, <1>9, <1>10, <1>11, <1>12, <1>13

\* The clock keeps the invariant.
LEMMA TickKeeps ==
  ASSUME IInv, Tick
  PROVE  IInv'
<1> USE ConstantsAssumption DEF IInv, Tick
<1>2. TypeOK'
  BY DEF TypeOK, Thread, NULL
<1>3. MutexInv'
  BY DEF MutexInv, Thread, TypeOK
<1>4. PoolMatchesList'
  BY DEF PoolMatchesList, Listed
<1>5. OneEntryPerAircraft'
  BY DEF OneEntryPerAircraft, Listed
<1>6. UpsertInv'
  BY DEF UpsertInv, Listed, Thread, TypeOK, NULL
<1>7. WalkInv'
  BY DEF WalkInv, Listed, Thread, TypeOK
<1>8. ReapInv'
  BY DEF ReapInv, Thread, TypeOK, Fresh
<1>9. StatsInv'
  BY DEF StatsInv, TypeOK, Thread
<1>10. PredInv'
  BY DEF PredInv, Listed, TypeOK
<1>11. TimeInv'
  BY DEF TimeInv, Listed, TypeOK, Thread
<1> QED BY <1>2, <1>3, <1>4, <1>5, <1>6, <1>7, <1>8, <1>9, <1>10, <1>11

-----------------------------------------------------------------------------
\* Every step of the callers, the reaper and the clock keeps the invariant.
LEMMA StepKeeps == ASSUME IInv, [Next]_vars PROVE IInv'
<1>1. ASSUME NEW t \in Caller, CallerNext(t) PROVE IInv'
  BY <1>1, UpsertLockKeeps, UpsertFindKeeps, UpsertUpdateKeeps, UpsertInsertKeeps,
     UpsertFullKeeps, ClearLockKeeps, ClearStepKeeps, ClearUnlockKeeps,
     WalkLockKeeps, WalkStepKeeps, WalkUnlockKeeps DEF CallerNext
<1>2. CASE ReaperNext
  BY <1>2, ReapLockKeeps, ReapEvictKeeps, ReapKeepKeeps, ReapUnlockKeeps DEF ReaperNext
<1>3. CASE Tick
  BY <1>3, TickKeeps
<1>4. CASE UNCHANGED vars
  BY <1>4 DEF vars, IInv, TypeOK, MutexInv, PoolMatchesList, OneEntryPerAircraft,
     UpsertInv, WalkInv, ReapInv, StatsInv, PredInv, TimeInv, Listed, Fresh
<1> QED BY <1>1, <1>2, <1>3, <1>4 DEF Next

\* The conjunction is an invariant of the database.
LEMMA Invariance == Spec => []IInv
<1>1. IInv /\ [Next]_vars => IInv'
  BY StepKeeps
<1> QED BY InitIInv, <1>1, PTL DEF Spec

\* The type invariant holds in every reachable state.
THEOREM TypeCorrect == Spec => []TypeOK
BY Invariance, PTL DEF IInv

\* No slot is leaked, doubly listed or freed while in use (pool_alloc,
\* pool_free, sys_slist_remove), whatever the callers and the reaper do.
THEOREM PoolConsistent == Spec => []PoolMatchesList
BY Invariance, PTL DEF IInv

\* No interleaving of upserts from several threads gives an aircraft two
\* entries (aircraft_db_upsert).
THEOREM UniqueAircraft == Spec => []OneEntryPerAircraft
BY Invariance, PTL DEF IInv

\* No thread's walk or find holds an entry that has been freed
\* (aircraft_db_for_each, aircraft_db_clear, reap_locked).
THEOREM WalkersSafe == Spec => []NoFreedNode
<1>1. IInv => NoFreedNode
  <2> SUFFICES ASSUME IInv, NEW t \in Thread, node[t] # NULL PROVE node[t] \in Listed
    BY DEF NoFreedNode
  <2>1. CASE pc[t] \in {"idle", "find", "write", "walk"}
    BY <2>1 DEF IInv, UpsertInv, WalkInv
  <2>2. CASE pc[t] = "clear"
    BY <2>2, WalkStaysOnList DEF IInv, WalkInv, TypeOK, Listed, RangeOf
  <2>3. CASE pc[t] = "reap"
    BY <2>3 DEF IInv, MutexInv, ReapInv, TypeOK, Thread, Listed
  <2> QED BY <2>1, <2>2, <2>3 DEF IInv, TypeOK
<1> QED BY Invariance, <1>1, PTL

\* The counters account for the entries whenever the mutex is free (s_stats).
THEOREM StatsAccount == Spec => []StatsBalance
<1>1. IInv => StatsBalance
  BY AllIdle DEF IInv, StatsInv, StatsBalance, Thread
<1> QED BY Invariance, <1>1, PTL

\* An entry outlives its last report by at most the threshold and one reaper
\* period, for every choice of the two (reap_locked, reaper_thread_fn).
THEOREM AgeBounded == Spec => []StaleBound
<1>1. IInv => StaleBound
  <2> SUFFICES ASSUME IInv, NEW s \in Listed
               PROVE  uptime - s_pool[s].last_seen <= STALE_MS + REAPER_TICK_MS
    BY DEF StaleBound
  <2>1. s_pool[s].last_seen \in Nat /\ uptime \in Nat /\ wake \in Nat
    BY FieldTypes, ListFacts
  <2>2. uptime <= wake /\ wake - REAPER_TICK_MS - STALE_MS <= s_pool[s].last_seen
    BY DEF IInv, TimeInv
  <2> QED BY <2>1, <2>2, ConstantsAssumption
<1> QED BY Invariance, <1>1, PTL

\* No aircraft is published with a prediction before enough reports of it
\* (aircraft_db_upsert, kalman_update).
THEOREM PredictionsEarned == Spec => []PredictionEarned
<1>1. IInv => PredictionEarned
  BY ConstantsAssumption DEF IInv, PredInv, PredictionEarned, TypeOK, Entry, Listed
<1> QED BY Invariance, <1>1, PTL

-----------------------------------------------------------------------------
(* What a step does to the list *)

\* The entry that a clear takes off the list is its head, and the only one.
LEMMA ClearDrops ==
  ASSUME IInv, NEW t \in Caller, ClearStep(t)
  PROVE  /\ node[t] \in Listed /\ Listed' = Listed \ {node[t]} /\ pc[t] = "clear"
         /\ UNCHANGED <<s_pool, pc, uptime>>
<1>1. pc[t] = "clear" /\ node[t] # NULL /\ t \in Thread /\ UNCHANGED <<s_pool, pc, uptime>>
  BY DEF ClearStep, Thread
<1>2. 1 \in DOMAIN s_list /\ node[t] = s_list[1] /\ node[t] \in Slot
  BY <1>1, ListFacts DEF IInv, WalkInv, First
<1>3. s_list' = SlistRemove(s_list, NULL, s_list[1])
  BY <1>2, ListFacts, PositionUnique DEF ClearStep, SlistFindAndRemove
<1>4. RangeOf(s_list') = RangeOf(s_list) \ {s_list[1]}
  <2>1. NULL \in Slot \cup {NULL} /\ NULL = IF 1 = 1 THEN NULL ELSE s_list[1 - 1]
    OBVIOUS
  <2> QED BY ONLY <2>1, <1>2, <1>3, ListFacts, RemoveOne, IInv
<1>5. Listed' = Listed \ {node[t]} /\ node[t] \in Listed
  BY <1>2, <1>4, ListFacts DEF Listed, RangeOf
<1> QED BY <1>1, <1>5

\* The entry that the reaper takes off the list is the stale one it stands at.
LEMMA EvictDrops ==
  ASSUME IInv, ReapEvict
  PROVE  /\ node[Reaper] \in Listed /\ Listed' = Listed \ {node[Reaper]}
         /\ uptime - s_pool[node[Reaper]].last_seen > STALE_MS
         /\ UNCHANGED <<s_pool, pc, uptime>>
<1>1. /\ pc[Reaper] = "reap" /\ node[Reaper] # NULL /\ Stale(node[Reaper])
      /\ UNCHANGED <<s_pool, pc, uptime>>
  BY DEF ReapEvict
<1>2. PICK k \in 1 .. (Len(s_list) + 1) :
        /\ node[Reaper] = IF k = Len(s_list) + 1 THEN NULL ELSE s_list[k]
        /\ prev = IF k = 1 THEN NULL ELSE s_list[k - 1]
  BY <1>1 DEF IInv, ReapInv
<1>3. k \in DOMAIN s_list /\ node[Reaper] = s_list[k] /\ node[Reaper] \in Slot
  BY <1>1, <1>2, ListFacts
<1>4. s_list' = SlistRemove(s_list, prev, s_list[k]) /\ prev \in Slot \cup {NULL}
  BY <1>3 DEF ReapEvict, IInv, TypeOK
<1>5. RangeOf(s_list') = RangeOf(s_list) \ {s_list[k]}
  <2>1. prev = IF k = 1 THEN NULL ELSE s_list[k - 1]
    BY <1>2
  <2> QED BY ONLY <2>1, <1>3, <1>4, ListFacts, RemoveOne, IInv
<1>6. Listed' = Listed \ {node[Reaper]} /\ node[Reaper] \in Listed
  BY <1>3, <1>5, ListFacts DEF Listed, RangeOf
<1>7. now_ms[Reaper] = uptime
  BY <1>1 DEF IInv, TimeInv
<1> QED BY <1>1, <1>6, <1>7 DEF Stale

\* An insert adds the entry of an aircraft that is not on the list, in a slot that was free.
LEMMA InsertAdds ==
  ASSUME IInv, NEW t \in Caller, UpsertInsert(t)
  PROVE  \E n \in Slot \ Listed :
           /\ Listed' = Listed \cup {n}
           /\ \A s \in Listed : s_pool'[s] = s_pool[s] /\ s_pool[s].icao # icao[t]
           /\ s_pool'[n].icao = icao[t] /\ s_pool'[n].last_seen = now_ms[t]
<1>1. PICK n \in PoolAlloc(s_pool_used), a \in BOOLEAN :
        /\ s_pool' = [s_pool EXCEPT ![n] = Observed(icao[t], now_ms[t], KalmanUpdate(0, a))]
        /\ s_list' = Append(s_list, n)
  BY DEF UpsertInsert
<1>2. pc[t] = "write" /\ node[t] = NULL /\ t \in Thread
  BY DEF UpsertInsert, Thread
<1>3. /\ n \in Slot /\ n \notin Listed /\ Listed \subseteq Slot
      /\ \A s \in Listed : s_pool[s].icao # icao[t]
  BY <1>2, ListFacts DEF IInv, PoolAlloc, PoolMatchesList, UpsertInv
<1>4. /\ DOMAIN s_list' = 1 .. (Len(s_list) + 1) /\ s_list'[Len(s_list) + 1] = n
      /\ \A k \in 1 .. Len(s_list) : s_list'[k] = s_list[k]
  BY <1>1, <1>3, ListFacts
<1>5. Listed' = Listed \cup {n}
  <2>1. ASSUME NEW k \in DOMAIN s_list' PROVE s_list'[k] \in Listed \cup {n}
    BY <1>4, ListFacts DEF RangeOf
  <2>2. ASSUME NEW k \in DOMAIN s_list PROVE s_list[k] \in Listed'
    BY <1>4, ListFacts DEF Listed
  <2>3. n \in Listed' /\ Listed \subseteq Listed'
    BY <1>4, <2>2, ListFacts DEF Listed
  <2>4. Listed' \subseteq Listed \cup {n}
    BY <2>1, Zenon DEF Listed
  <2> QED BY <2>3, <2>4
<1>6. /\ s_pool'[n] = Observed(icao[t], now_ms[t], KalmanUpdate(0, a))
      /\ \A s \in Listed : s_pool'[s] = s_pool[s]
  BY <1>1, <1>3 DEF IInv, TypeOK
<1>7. s_pool'[n].icao = icao[t] /\ s_pool'[n].last_seen = now_ms[t]
  BY <1>6 DEF Observed
<1> QED BY <1>3, <1>5, <1>6, <1>7

\* An update replaces the entry of its aircraft.
LEMMA UpdateReplaces ==
  ASSUME IInv, NEW t \in Caller, UpsertUpdate(t)
  PROVE  /\ node[t] \in Listed /\ Listed' = Listed /\ s_pool[node[t]].icao = icao[t]
         /\ \A s \in Listed : s # node[t] => s_pool'[s] = s_pool[s]
         /\ s_pool'[node[t]].icao = icao[t] /\ s_pool'[node[t]].last_seen = now_ms[t]
<1>1. PICK a \in BOOLEAN :
        s_pool' = [s_pool EXCEPT ![node[t]] =
                     Observed(icao[t], now_ms[t], KalmanUpdate(s_pool[node[t]].update_count, a))]
  BY DEF UpsertUpdate
<1>2. pc[t] = "write" /\ node[t] # NULL /\ t \in Thread /\ s_list' = s_list
  BY DEF UpsertUpdate, Thread
<1>3. node[t] \in Listed /\ s_pool[node[t]].icao = icao[t] /\ Listed \subseteq Slot /\ Listed' = Listed
  BY <1>2, ListFacts DEF IInv, UpsertInv, Listed
<1>4. /\ s_pool'[node[t]] = Observed(icao[t], now_ms[t], KalmanUpdate(s_pool[node[t]].update_count, a))
      /\ \A s \in Listed : s # node[t] => s_pool'[s] = s_pool[s]
  BY <1>1, <1>3 DEF IInv, TypeOK
<1>5. s_pool'[node[t]].icao = icao[t] /\ s_pool'[node[t]].last_seen = now_ms[t]
  BY <1>4 DEF Observed
<1> QED BY <1>3, <1>4, <1>5

\* The reaper's strict test, on the uptime it read under the mutex, takes no entry off
\* the list that was reported within the threshold; only aircraft_db_clear may.
THEOREM FreshEntriesKept == Spec => FreshKept
<1>1. ASSUME IInv, [Next]_vars, NEW s \in Listed, s \notin Listed'
      PROVE  Clearing \/ uptime - s_pool[s].last_seen > STALE_MS
  <2>1. ASSUME NEW t \in Caller, CallerNext(t) PROVE Clearing
    <3>1. CASE ClearStep(t)
      BY <1>1, <3>1, ClearDrops DEF Clearing
    <3>2. CASE UpsertInsert(t)
      BY <1>1, <3>2, InsertAdds
    <3>3. CASE ~ClearStep(t) /\ ~UpsertInsert(t)
      BY <1>1, <2>1, <3>3 DEF CallerNext, UpsertLock, UpsertFind, UpsertUpdate, UpsertFull, ClearLock, ClearUnlock,
                              WalkLock, WalkStep, WalkUnlock, Listed
    <3> QED BY <3>1, <3>2, <3>3
  <2>2. CASE ReapEvict
    BY <1>1, <2>2, EvictDrops
  <2>3. CASE ReapLock \/ ReapKeep \/ ReapUnlock \/ Tick \/ UNCHANGED vars
    BY <1>1, <2>3 DEF ReapLock, ReapKeep, ReapUnlock, Tick, vars, Listed
  <2> QED BY <1>1, <2>1, <2>2, <2>3 DEF Next, ReaperNext
<1>2. IInv /\ [Next]_vars =>
        [\A s \in Listed : s \notin Listed' =>
           \/ \E t \in Caller : pc[t] = "clear"
           \/ uptime - s_pool[s].last_seen > STALE_MS]_vars
  BY <1>1 DEF Clearing
<1> QED BY Invariance, <1>2, PTL DEF Spec, FreshKept

-----------------------------------------------------------------------------
(***************************************************************************)
(* The refinement.  IInv says that an upsert writes to the right entry;    *)
(* that its report is not older than the entry it replaces needs SeenInv:  *)
(* the uptime was read under the mutex, after every report on the list.    *)
(***************************************************************************)
SeenInv ==
  /\ \A s \in Listed : s_pool[s].last_seen <= uptime
  /\ \A t \in Caller, s \in Listed : pc[t] = "write" => s_pool[s].last_seen <= now_ms[t]

LEMMA SeenStep == ASSUME IInv, SeenInv, [Next]_vars PROVE SeenInv'
<1>0. /\ Listed \subseteq Slot /\ uptime \in Nat /\ \A s \in Slot : s_pool[s].last_seen \in Nat
      /\ pc \in [Thread -> {"idle", "find", "write", "clear", "walk", "reap"}]
      /\ now_ms \in [Thread -> Nat] /\ Caller \subseteq Thread /\ Reaper \in Thread
  BY ListFacts, FieldTypes DEF IInv, TypeOK, Thread
<1>1. ASSUME NEW t \in Caller, CallerNext(t) PROVE SeenInv'
  <2>0. t \in Thread /\ (pc[t] # "idle" => \A r \in Thread \ {t} : pc[r] = "idle")
    BY <1>0, Exclusive
  <2>1. CASE UpsertFind(t)
    <3>1. /\ UNCHANGED <<s_pool, s_list, uptime>> /\ now_ms' = [now_ms EXCEPT ![t] = uptime]
          /\ pc' = [pc EXCEPT ![t] = "write"] /\ pc[t] = "find"
      BY <2>1 DEF UpsertFind, Goto
    <3> QED BY <1>0, <2>0, <3>1 DEF SeenInv, Listed
  <2>2. CASE UpsertUpdate(t) \/ UpsertInsert(t)
    <3>1. pc[t] = "write" /\ pc' = [pc EXCEPT ![t] = "idle"] /\ uptime' = uptime
      BY <2>2 DEF UpsertUpdate, UpsertInsert, Return, Goto
    <3>2. \A r \in Caller : pc'[r] # "write"
      BY <1>0, <2>0, <3>1
    <3>3. now_ms[t] <= uptime
      BY <3>1 DEF IInv, TimeInv
    <3>4. \A s \in Listed' : s_pool'[s].last_seen = now_ms[t] \/ (s \in Listed /\ s_pool'[s] = s_pool[s])
      <4>1. CASE UpsertUpdate(t)
        BY <4>1, UpdateReplaces
      <4>2. CASE UpsertInsert(t)
        BY <4>2, InsertAdds
      <4> QED BY <2>2, <4>1, <4>2
    <3> QED BY <3>1, <3>2, <3>3, <3>4 DEF SeenInv
  <2>3. CASE ClearStep(t)
    <3>1. now_ms' = now_ms
      BY <2>3 DEF ClearStep
    <3> QED BY <2>3, <3>1, ClearDrops DEF SeenInv
  <2>4. CASE WalkStep(t)
    BY <2>4 DEF WalkStep, SeenInv, Listed
  <2>5. CASE (\E i \in Icao : UpsertLock(t, i)) \/ ClearLock(t) \/ WalkLock(t)
    <3>1. /\ UNCHANGED <<s_pool, s_list, uptime, now_ms>>
          /\ \E l \in {"find", "clear", "walk"} : pc' = [pc EXCEPT ![t] = l]
      BY <2>5 DEF UpsertLock, ClearLock, WalkLock, Goto
    <3> QED BY <1>0, <3>1 DEF SeenInv, Listed
  <2>6. CASE UpsertFull(t) \/ ClearUnlock(t) \/ WalkUnlock(t)
    <3>1. /\ UNCHANGED <<s_pool, s_list, uptime>> /\ pc[t] # "idle" /\ pc' = [pc EXCEPT ![t] = "idle"]
      BY <2>6 DEF UpsertFull, ClearUnlock, WalkUnlock, Return, Goto
    <3>2. \A r \in Caller : pc'[r] # "write"
      BY <1>0, <2>0, <3>1
    <3> QED BY <3>1, <3>2 DEF SeenInv, Listed
  <2> QED BY <1>1, <2>1, <2>2, <2>3, <2>4, <2>5, <2>6 DEF CallerNext
<1>2. CASE ReapEvict
  <2>1. now_ms' = now_ms
    BY <1>2 DEF ReapEvict
  <2> QED BY <1>2, <2>1, EvictDrops DEF SeenInv
<1>3. CASE ReapLock \/ ReapUnlock
  <2>1. /\ UNCHANGED <<s_pool, s_list, uptime>>
        /\ \E l \in {"reap", "idle"} : pc' = [pc EXCEPT ![Reaper] = l]
        /\ \E m \in Nat : now_ms' = [now_ms EXCEPT ![Reaper] = m]
    BY <1>0, <1>3 DEF ReapLock, ReapUnlock, Return, Goto
  <2> QED BY <1>0, <2>1, ConstantsAssumption DEF SeenInv, Listed
<1>4. CASE ReapKeep \/ UNCHANGED vars
  BY <1>4 DEF ReapKeep, vars, SeenInv, Listed
<1>5. CASE Tick
  <2>1. UNCHANGED <<s_pool, s_list, pc, now_ms>> /\ uptime' = uptime + 1
    BY <1>5 DEF Tick
  <2> QED BY <1>0, <2>1 DEF SeenInv, Listed
<1> QED BY <1>1, <1>2, <1>3, <1>4, <1>5 DEF Next, ReaperNext

\* The map of a table in which no aircraft has two entries.
LEMMA AbstractedFacts ==
  ASSUME NEW pool, NEW L, \A s, r \in L : pool[s].icao = pool[r].icao => s = r
  PROVE  /\ Abstracted(pool, L) = [i \in DOMAIN Abstracted(pool, L) |-> Abstracted(pool, L)[i]]
         /\ DOMAIN Abstracted(pool, L) = {pool[s].icao : s \in L}
         /\ \A s \in L : Abstracted(pool, L)[pool[s].icao] = pool[s].last_seen
<1>1. ASSUME NEW s \in L PROVE (CHOOSE r \in L : pool[r].icao = pool[s].icao) = s
  OBVIOUS
<1> QED BY <1>1 DEF Abstracted

\* What the abstraction of a state is.
LEMMA StoreFacts ==
  ASSUME IInv
  PROVE  /\ AbsStore = [i \in Store!Known |-> AbsStore[i]]
         /\ Store!Known = {s_pool[s].icao : s \in Listed} /\ Store!Known \subseteq Icao
         /\ \A s \in Listed : AbsStore[s_pool[s].icao] = s_pool[s].last_seen
<1>1. \A s, r \in Listed : s_pool[s].icao = s_pool[r].icao => s = r
  BY DEF IInv, OneEntryPerAircraft
<1>2. \A s \in Listed : s_pool[s].icao \in Icao
  BY DEF IInv, PredInv
<1>3. /\ AbsStore = [i \in DOMAIN AbsStore |-> AbsStore[i]]
      /\ DOMAIN AbsStore = {s_pool[s].icao : s \in Listed}
      /\ \A s \in Listed : AbsStore[s_pool[s].icao] = s_pool[s].last_seen
  BY <1>1, AbstractedFacts DEF AbsStore
<1>4. {s_pool[s].icao : s \in Listed} \subseteq Icao
  BY <1>2
<1>5. Store!Known = DOMAIN AbsStore
  BY DEF Store!Known
<1> QED BY <1>3, <1>4, <1>5

\* The map of the next state.
LEMMA StoreFactsNext ==
  ASSUME IInv'
  PROVE  /\ AbsStore' = [i \in DOMAIN AbsStore' |-> AbsStore'[i]]
         /\ DOMAIN AbsStore' = {s_pool'[s].icao : s \in Listed'}
         /\ \A s \in Listed' : AbsStore'[s_pool'[s].icao] = s_pool'[s].last_seen
<1>1. \A s, r \in Listed' : s_pool'[s].icao = s_pool'[r].icao => s = r
  BY DEF IInv, OneEntryPerAircraft
<1> QED BY <1>1, AbstractedFacts DEF AbsStore

\* Without one of its slots the table has room for one more aircraft.
LEMMA RoomLeft ==
  ASSUME IInv, NEW n \in Slot \ Listed
  PROVE  Cardinality(Store!Known) < MAX_ENTRIES
<1>1. IsFiniteSet(Slot) /\ Cardinality(Slot) = MAX_ENTRIES
  BY FS_Interval, ConstantsAssumption DEF Slot
<1>2. IsFiniteSet(Slot \ {n}) /\ Cardinality(Slot \ {n}) = MAX_ENTRIES - 1
  BY <1>1, FS_RemoveElement
<1>3. Listed \in SUBSET (Slot \ {n})
  BY ListFacts
<1>4. IsFiniteSet(Listed) /\ Cardinality(Listed) <= MAX_ENTRIES - 1 /\ Cardinality(Listed) \in Nat
  BY <1>2, <1>3, FS_Subset, FS_CardinalityType
<1> DEFINE address == [s \in Listed |-> s_pool[s].icao]
<1>5. address \in Surjection(Listed, Store!Known)
  BY StoreFacts DEF Surjection
<1>6. IsFiniteSet(Store!Known) /\ Cardinality(Store!Known) <= Cardinality(Listed)
  BY <1>4, <1>5, FS_Surjection
<1>7. Cardinality(Store!Known) \in Nat
  BY <1>6, FS_CardinalityType
<1> QED BY <1>4, <1>6, <1>7, ConstantsAssumption

\* An unlink drops one aircraft from the map.
LEMMA DropMaps ==
  ASSUME IInv, IInv', NEW n \in Listed, Listed' = Listed \ {n}, s_pool' = s_pool
  PROVE  s_pool[n].icao \in Store!Known /\ Store!Drop(s_pool[n].icao)
<1>1. \A s \in Listed : s # n => s_pool[s].icao # s_pool[n].icao
  BY DEF IInv, OneEntryPerAircraft
<1>2. DOMAIN AbsStore' = Store!Known \ {s_pool[n].icao}
  BY <1>1, StoreFacts, StoreFactsNext
<1>3. \A j \in DOMAIN AbsStore' : AbsStore'[j] = AbsStore[j]
  BY StoreFacts, StoreFactsNext
<1>4. AbsStore' = [j \in Store!Known \ {s_pool[n].icao} |-> AbsStore[j]]
  BY <1>2, <1>3, StoreFactsNext
<1> QED BY <1>4, StoreFacts DEF Store!Drop

\* A write stamps one aircraft in the map.
LEMMA WriteMaps ==
  ASSUME IInv, IInv', NEW n \in Slot, Listed' = Listed \cup {n}, NEW i, NEW m,
         \A s \in Listed : s # n => s_pool'[s] = s_pool[s] /\ s_pool[s].icao # i,
         s_pool'[n].icao = i, s_pool'[n].last_seen = m,
         n \in Listed => s_pool[n].icao = i
  PROVE  AbsStore' = [j \in Store!Known \cup {i} |-> IF j = i THEN m ELSE AbsStore[j]]
<1>1. DOMAIN AbsStore' = Store!Known \cup {i}
  BY StoreFacts, StoreFactsNext
<1>2. \A j \in DOMAIN AbsStore' : AbsStore'[j] = IF j = i THEN m ELSE AbsStore[j]
  BY StoreFacts, StoreFactsNext
<1> QED BY <1>1, <1>2, StoreFactsNext

LEMMA StoreInitial == Init => Store!StoreInit
<1> SUFFICES ASSUME Init PROVE Store!StoreInit
  OBVIOUS
<1>1. Listed = {} /\ uptime = 0
  BY DEF Init, Listed
<1>2. AbsStore = [i \in {} |-> 0]
  BY <1>1 DEF AbsStore, Abstracted
<1>3. Clearing = FALSE
  BY DEF Init, Clearing, Thread
<1> QED BY <1>1, <1>2, <1>3 DEF Store!StoreInit

\* Steps that leave list, pool and clock alone, and clear nothing, are invisible.
LEMMA Invisible ==
  ASSUME UNCHANGED <<s_pool, s_list, uptime>>, Clearing' = Clearing
  PROVE  UNCHANGED Store!storeVars
<1>1. Listed' = Listed
  BY DEF Listed
<1> QED BY <1>1 DEF AbsStore, Store!storeVars

\* Every step of the database is an operation of the map or invisible.
LEMMA StoreStep ==
  ASSUME IInv, SeenInv, [Next]_vars PROVE [Store!StoreNext]_(Store!storeVars)
<1>0. /\ IInv' /\ pc \in [Thread -> {"idle", "find", "write", "clear", "walk", "reap"}]
      /\ Caller \subseteq Thread /\ Reaper \in Thread \ Caller
      /\ uptime \in Nat /\ now_ms \in [Thread -> Nat]
  BY StepKeeps, ConstantsAssumption DEF IInv, TypeOK, Thread
<1>1. ASSUME NEW t \in Caller, CallerNext(t) PROVE [Store!StoreNext]_(Store!storeVars)
  <2>0. t \in Thread /\ (pc[t] # "idle" => \A r \in Thread \ {t} : pc[r] = "idle")
    BY <1>0, Exclusive
  <2>1. CASE UpsertUpdate(t) \/ UpsertInsert(t)
    <3>1. pc[t] = "write" /\ pc' = [pc EXCEPT ![t] = "idle"] /\ uptime' = uptime
      BY <2>1 DEF UpsertUpdate, UpsertInsert, Return, Goto
    <3>2. Clearing = FALSE /\ Clearing' = FALSE
      BY <1>0, <2>0, <3>1 DEF Clearing
    <3>3. icao[t] \in Icao /\ now_ms[t] \in 0 .. uptime
      BY <1>0, <2>0, <3>1 DEF IInv, UpsertInv, TimeInv
    <3>4. /\ icao[t] \in Store!Known \/ Cardinality(Store!Known) < MAX_ENTRIES
          /\ icao[t] \in Store!Known => AbsStore[icao[t]] <= now_ms[t]
          /\ AbsStore' = [j \in Store!Known \cup {icao[t]} |-> IF j = icao[t] THEN now_ms[t] ELSE AbsStore[j]]
      <4>1. CASE UpsertUpdate(t)
        <5>1. /\ node[t] \in Listed /\ Listed' = Listed \cup {node[t]} /\ s_pool[node[t]].icao = icao[t]
              /\ s_pool'[node[t]].icao = icao[t] /\ s_pool'[node[t]].last_seen = now_ms[t]
              /\ \A s \in Listed : s # node[t] => s_pool'[s] = s_pool[s]
          BY <4>1, UpdateReplaces
        <5>2. node[t] \in Slot /\ \A s \in Listed : s # node[t] => s_pool[s].icao # icao[t]
          BY <5>1, ListFacts DEF IInv, OneEntryPerAircraft
        <5>3. icao[t] \in Store!Known /\ AbsStore[icao[t]] <= now_ms[t]
          BY <3>1, <5>1, StoreFacts DEF SeenInv
        <5>4. \A s \in Listed : s # node[t] => s_pool'[s] = s_pool[s] /\ s_pool[s].icao # icao[t]
          BY <5>1, <5>2
        <5>5. AbsStore' = [j \in Store!Known \cup {icao[t]} |-> IF j = icao[t] THEN now_ms[t] ELSE AbsStore[j]]
          BY <1>0, <5>1, <5>2, <5>4, WriteMaps
        <5> QED BY <5>3, <5>5
      <4>2. CASE UpsertInsert(t)
        <5>1. PICK n \in Slot \ Listed :
                /\ Listed' = Listed \cup {n}
                /\ \A s \in Listed : s_pool'[s] = s_pool[s] /\ s_pool[s].icao # icao[t]
                /\ s_pool'[n].icao = icao[t] /\ s_pool'[n].last_seen = now_ms[t]
          BY <4>2, InsertAdds
        <5>2. icao[t] \notin Store!Known /\ Cardinality(Store!Known) < MAX_ENTRIES
          BY <5>1, StoreFacts, RoomLeft
        <5> QED BY <1>0, <5>1, <5>2, WriteMaps
      <4> QED BY <2>1, <4>1, <4>2
    <3>5. ~Clearing /\ UNCHANGED <<uptime, Clearing>>
      BY <3>1, <3>2
    <3>6. Store!Cardinality(Store!Known) = Cardinality(Store!Known)
      BY DEF Cardinality, Store!Cardinality, IsFiniteSet, Store!IsFiniteSet
    <3>7. Store!Report(icao[t], now_ms[t])
      BY <3>4, <3>5, <3>6, Zenon DEF Store!Report
    <3> QED BY <3>3, <3>7 DEF Store!StoreNext
  <2>2. CASE ClearStep(t)
    <3>1. Clearing = TRUE /\ Clearing' = TRUE /\ uptime' = uptime
      BY <2>2, ClearDrops DEF Clearing
    <3>2. s_pool[node[t]].icao \in Store!Known /\ Store!Drop(s_pool[node[t]].icao)
      BY <1>0, <2>2, ClearDrops, DropMaps
    <3>3. Store!Forget(s_pool[node[t]].icao)
      BY <3>1, <3>2 DEF Store!Forget
    <3> QED BY <3>2, <3>3 DEF Store!StoreNext
  <2>3. CASE ClearLock(t)
    <3>1. /\ UNCHANGED <<s_pool, s_list, uptime>> /\ pc' = [pc EXCEPT ![t] = "clear"]
          /\ \A r \in Thread : pc[r] = "idle"
      BY <2>3, AllIdle DEF ClearLock, Lock, Goto
    <3>2. Clearing = FALSE /\ Clearing' = TRUE
      BY <1>0, <2>0, <3>1 DEF Clearing
    <3>3. Store!BeginClear
      BY <3>1, <3>2 DEF Store!BeginClear, AbsStore, Listed
    <3> QED BY <3>3 DEF Store!StoreNext
  <2>4. CASE ClearUnlock(t)
    <3>1. /\ UNCHANGED <<s_pool, s_list, uptime>> /\ pc' = [pc EXCEPT ![t] = "idle"]
          /\ pc[t] = "clear" /\ node[t] = NULL
      BY <2>4 DEF ClearUnlock, Return, Goto
    <3>2. Clearing = TRUE /\ Clearing' = FALSE
      BY <1>0, <2>0, <3>1 DEF Clearing
    <3>3. Listed = {}
      <4>1. First(s_list) = NULL
        BY <2>0, <3>1 DEF IInv, WalkInv
      <4>2. s_list # <<>> => s_list[1] \in Slot
        BY ListFacts
      <4> QED BY <4>1, <4>2 DEF First, NULL, Slot, Listed
    <3>4. Store!Known = {}
      BY <3>3, StoreFacts
    <3>5. Store!EndClear
      BY <3>1, <3>2, <3>4 DEF Store!EndClear, AbsStore, Listed
    <3> QED BY <3>5 DEF Store!StoreNext
  <2>5. CASE \/ \E i \in Icao : UpsertLock(t, i)
             \/ UpsertFind(t) \/ UpsertFull(t) \/ WalkLock(t) \/ WalkStep(t) \/ WalkUnlock(t)
    <3>1. /\ UNCHANGED <<s_pool, s_list, uptime>> /\ pc[t] # "clear"
          /\ pc' = pc \/ \E l \in {"idle", "find", "write", "walk"} : pc' = [pc EXCEPT ![t] = l]
      BY <2>5 DEF UpsertLock, UpsertFind, UpsertFull, WalkLock, WalkStep, WalkUnlock, Return, Goto
    <3>2. Clearing' = Clearing
      BY <1>0, <2>0, <3>1 DEF Clearing
    <3> QED BY <3>1, <3>2, Invisible
  <2> QED BY <1>1, <2>1, <2>2, <2>3, <2>4, <2>5 DEF CallerNext
<1>2. CASE ReapEvict
  <2> DEFINE n == node[Reaper]
  <2>1. /\ n \in Listed /\ Listed' = Listed \ {n} /\ uptime - s_pool[n].last_seen > STALE_MS
        /\ UNCHANGED <<s_pool, pc, uptime>> /\ pc[Reaper] # "idle"
    BY <1>2, EvictDrops DEF ReapEvict
  <2>2. Clearing = FALSE /\ Clearing' = FALSE
    BY <1>0, <2>1, Exclusive DEF Clearing
  <2>3. s_pool[n].icao \in Store!Known /\ Store!Drop(s_pool[n].icao) /\ AbsStore[s_pool[n].icao] = s_pool[n].last_seen
    BY <1>0, <2>1, DropMaps, StoreFacts
  <2>4. Store!Expire(s_pool[n].icao)
    BY <2>1, <2>2, <2>3 DEF Store!Expire
  <2> QED BY <2>3, <2>4 DEF Store!StoreNext
<1>3. CASE ReapLock \/ ReapKeep \/ ReapUnlock
  <2>1. /\ UNCHANGED <<s_pool, s_list, uptime>>
        /\ pc' = pc \/ \E l \in {"reap", "idle"} : pc' = [pc EXCEPT ![Reaper] = l]
    BY <1>3 DEF ReapLock, ReapKeep, ReapUnlock, Return, Goto
  <2>2. Clearing' = Clearing
    BY <1>0, <2>1 DEF Clearing
  <2> QED BY <2>1, <2>2, Invisible
<1>4. CASE Tick
  <2>1. UNCHANGED <<s_pool, s_list, pc>> /\ uptime' = uptime + 1
    BY <1>4 DEF Tick
  <2>2. Store!Advance
    BY <2>1 DEF Store!Advance, AbsStore, Listed, Clearing
  <2> QED BY <2>2 DEF Store!StoreNext
<1>5. CASE UNCHANGED vars
  BY <1>5, Invisible DEF vars, Clearing
<1> QED BY <1>1, <1>2, <1>3, <1>4, <1>5 DEF Next, ReaperNext

\* The database implements the bounded map of AircraftStore for every pool size,
\* threshold and number of threads: the list never outgrows the pool, no record is set
\* back to an earlier time, and an aircraft leaves only when it has expired or is cleared
\* (aircraft_db_upsert, aircraft_db_clear, reap_locked).
THEOREM Refinement == Spec => ImplementsStore
<1>1. Init => SeenInv
  BY DEF Init, SeenInv, Listed
<1>2. IInv /\ SeenInv /\ [Next]_vars => SeenInv'
  BY SeenStep
<1>3. Spec => []SeenInv
  BY Invariance, <1>1, <1>2, PTL DEF Spec
<1>4. IInv /\ SeenInv /\ [Next]_vars => [Store!StoreNext]_(Store!storeVars)
  BY StoreStep
<1> QED BY Invariance, StoreInitial, <1>3, <1>4, PTL DEF Spec, ImplementsStore, Store!StoreSpec
=============================================================================
