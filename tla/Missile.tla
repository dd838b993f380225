------------------------------- MODULE Missile ------------------------------
(***************************************************************************)
(* The two test aircraft a worker keeps alive in the database: the homing  *)
(* missile (controller/src/missile) and the injected head-on pair          *)
(* (controller/src/collision, inject commands).                            *)
(*                                                                         *)
(* The workers, and the collision tick that cancels the missile on impact, *)
(* run on the work queue, which outranks the shell: each may come between  *)
(* any two statements of a shell command, so the launch and the inject     *)
(* commands hold a program counter.  A record's age counts from its last   *)
(* upsert; Gone is a record evicted or never made.  Positions are left     *)
(* out.                                                                    *)
(***************************************************************************)
EXTENDS Integers

CONSTANTS
  TtlMs,        \* the missile's time to live
  StaleMs,      \* age at which the reaper evicts a record
  Commands      \* the commands the operator may enter in this instance

ASSUME MissileAssumption ==
  /\ TtlMs \in Nat \ {0} /\ StaleMs \in Nat \ {0}
  /\ Commands \subseteq {"launch", "cancel", "inject"}

VARIABLES
  target,            \* is a BLE_SIM record in the database?
  s_active, ttl,     \* the missile is in flight; s_expire_ms - now
  s_work,            \* is its worker scheduled?
  missile,           \* age of its record
  s_inject_active,
  s_inject_keepalive,
  injected,          \* age of the injected pair's records
  shell              \* where the shell's command is

missileVars == <<s_active, ttl, s_work, missile>>
injectVars  == <<s_inject_active, s_inject_keepalive, injected>>
vars == <<target, missileVars, injectVars, shell>>

Gone == -1

\* The missile, the injected pair and their delayed works have their types (missile.c, collision.c).
TypeOK ==
  /\ target \in BOOLEAN
  /\ s_active \in BOOLEAN /\ ttl \in 0 .. TtlMs /\ s_work \in BOOLEAN
  /\ missile \in Gone .. StaleMs
  /\ s_inject_active \in BOOLEAN /\ s_inject_keepalive \in BOOLEAN
  /\ injected \in Gone .. StaleMs
  /\ shell \in {"idle", "find", "set", "upsert", "schedule", "cancel",
                "inject_active", "inject_schedule"}

Init ==
  /\ target = FALSE
  /\ s_active = FALSE /\ ttl = 0 /\ s_work = FALSE /\ missile = Gone
  /\ s_inject_active = FALSE /\ s_inject_keepalive = FALSE /\ injected = Gone
  /\ shell = "idle"

-----------------------------------------------------------------------------
(* missile_launch, by the shell *)

\* A missile in flight is cancelled first; its worker cannot run in between.
Launch ==
  /\ "launch" \in Commands /\ shell = "idle"
  /\ s_work' = IF s_active THEN FALSE ELSE s_work
  /\ s_active' = FALSE
  /\ shell' = "find"
  /\ UNCHANGED <<target, ttl, missile, injectVars>>

\* Without a target the launch fails, after the cancellation.
LaunchFind ==
  /\ shell = "find"
  /\ shell' = IF target THEN "set" ELSE "idle"
  /\ UNCHANGED <<target, missileVars, injectVars>>

LaunchSet ==
  /\ shell = "set"
  /\ ttl' = TtlMs /\ s_active' = TRUE
  /\ shell' = "upsert"
  /\ UNCHANGED <<target, s_work, missile, injectVars>>

LaunchUpsert ==
  /\ shell = "upsert"
  /\ missile' = 0
  /\ shell' = "schedule"
  /\ UNCHANGED <<target, s_active, ttl, s_work, injectVars>>

SlipLaunchSchedule ==
  /\ shell = "schedule"
  /\ s_work' = ~s_active
  /\ shell' = "idle"
  /\ UNCHANGED <<target, s_active, ttl, missile, injectVars>>

LaunchSchedule ==
  /\ shell = "schedule"
  /\ s_work' = TRUE
  /\ shell' = "idle"
  /\ UNCHANGED <<target, s_active, ttl, missile, injectVars>>

-----------------------------------------------------------------------------
(* missile_cancel, by the shell in two steps and by the collision tick in one *)

Cancel ==
  /\ "cancel" \in Commands /\ shell = "idle" /\ s_active
  /\ s_work' = FALSE
  /\ shell' = "cancel"
  /\ UNCHANGED <<target, s_active, ttl, missile, injectVars>>

CancelFlag ==
  /\ shell = "cancel"
  /\ s_active' = FALSE
  /\ shell' = "idle"
  /\ UNCHANGED <<target, ttl, s_work, missile, injectVars>>

\* A CRASH of a pair that names the missile, whose record is in the database.
Impact ==
  /\ missile # Gone /\ target
  /\ s_active
  /\ s_work' = FALSE /\ s_active' = FALSE
  /\ UNCHANGED <<target, ttl, missile, injectVars, shell>>

-----------------------------------------------------------------------------
(* The workers *)

SlipWorker ==
  /\ s_work
  /\ IF s_active THEN s_work' = TRUE /\ missile' = 0 ELSE s_work' = FALSE /\ UNCHANGED missile
  /\ UNCHANGED <<target, s_active, ttl, injectVars, shell>>

\* worker_handler: not active, expired, or one more step; a target is followed
\* when there is one, and without one the missile coasts.
Worker ==
  /\ s_work
  /\ \/ ~s_active /\ s_work' = FALSE /\ UNCHANGED <<s_active, missile>>
     \/ s_active /\ ttl = 0 /\ s_work' = FALSE /\ s_active' = FALSE /\ UNCHANGED missile
     \/ s_active /\ ttl > 0 /\ missile' = 0 /\ UNCHANGED <<s_work, s_active>>
  /\ UNCHANGED <<target, ttl, injectVars, shell>>

\* collision_inject_scenario: both records, then the flag, then the worker.
Inject ==
  /\ "inject" \in Commands /\ shell = "idle"
  /\ injected' = 0
  /\ shell' = "inject_active"
  /\ UNCHANGED <<target, missileVars, s_inject_active, s_inject_keepalive>>

InjectActive ==
  /\ shell = "inject_active"
  /\ s_inject_active' = TRUE
  /\ shell' = "inject_schedule"
  /\ UNCHANGED <<target, missileVars, s_inject_keepalive, injected>>

InjectSchedule ==
  /\ shell = "inject_schedule"
  /\ s_inject_keepalive' = TRUE
  /\ shell' = "idle"
  /\ UNCHANGED <<target, missileVars, s_inject_active, injected>>

InjectStop ==
  /\ "inject" \in Commands /\ shell = "idle" /\ s_inject_active
  /\ s_inject_active' = FALSE
  /\ UNCHANGED <<target, missileVars, s_inject_keepalive, injected, shell>>

SlipInjectKeepalive ==
  /\ s_inject_keepalive
  /\ injected' = 0
  /\ UNCHANGED <<target, missileVars, s_inject_active, s_inject_keepalive, shell>>

InjectKeepalive ==
  /\ s_inject_keepalive
  /\ injected' = IF s_inject_active THEN 0 ELSE injected
  /\ s_inject_keepalive' = s_inject_active
  /\ UNCHANGED <<target, missileVars, s_inject_active, shell>>

-----------------------------------------------------------------------------
(* The rest of the controller *)

TargetChanges ==
  /\ target' = ~target
  /\ UNCHANGED <<missileVars, injectVars, shell>>

Older(age) == IF age \in 0 .. (StaleMs - 1) THEN age + 1 ELSE age

\* Time passes; a worker's period is shorter than the clock's unit, so that a
\* scheduled worker runs before a record of its own grows stale.
Advance ==
  /\ s_work => missile < StaleMs
  /\ s_inject_keepalive => injected < StaleMs
  /\ ttl' = IF ttl > 0 THEN ttl - 1 ELSE 0
  /\ missile' = Older(missile) /\ injected' = Older(injected)
  /\ UNCHANGED <<target, s_active, s_work, s_inject_active, s_inject_keepalive, shell>>

\* The reaper evicts a stale record.
Reap ==
  /\ missile = StaleMs \/ injected = StaleMs
  /\ missile' = IF missile = StaleMs THEN Gone ELSE missile
  /\ injected' = IF injected = StaleMs THEN Gone ELSE injected
  /\ UNCHANGED <<target, s_active, ttl, s_work, s_inject_active, s_inject_keepalive,
                 shell>>

ShellSteps ==
  \/ LaunchFind \/ LaunchSet \/ LaunchUpsert \/ LaunchSchedule \/ CancelFlag
  \/ InjectActive \/ InjectSchedule

ShellCommand == Launch \/ Cancel \/ Inject \/ InjectStop

Next ==
  \/ ShellCommand \/ ShellSteps \/ Worker \/ InjectKeepalive \/ Impact
  \/ TargetChanges \/ Advance \/ Reap

Spec == Init /\ [][Next]_vars

\* The shell finishes its commands, the workers and the reaper run, time goes on.
FairSpec ==
  /\ Spec
  /\ WF_vars(ShellSteps) /\ WF_vars(Worker) /\ WF_vars(InjectKeepalive)
  /\ WF_vars(Reap) /\ SF_vars(Advance)

-----------------------------------------------------------------------------
(* Safety *)

\* A missile in flight, and an active injected pair, always has its worker
\* scheduled once the shell's command is over, however impacts, cancellations,
\* relaunches and workers met inside it; else it would hang in the air.
WorkerScheduled ==
  /\ s_active => s_work \/ shell \in {"upsert", "schedule", "cancel"}
  /\ s_inject_active => s_inject_keepalive \/ shell = "inject_schedule"

-----------------------------------------------------------------------------
(* Liveness, under FairSpec *)

\* Every flight ends, by impact, by command or when its time to live is over.
FlightEnds == s_active ~> ~s_active

\* After the last inject command and a stop, the injected pair fades away.
PairFades ==
  <>[](shell = "idle" /\ ~s_inject_active) => <>[](injected = Gone)
=============================================================================
