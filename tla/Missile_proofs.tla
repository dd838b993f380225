--------------------------- MODULE Missile_proofs ---------------------------
(***************************************************************************)
(* Proofs about the missile and the injected pair, for every time to live, *)
(* every staleness limit and every set of commands.  WorkerScheduled is    *)
(* inductive together with the types: what an interleaved worker, impact   *)
(* or cancellation takes away, the shell's program counter gives back.     *)
(***************************************************************************)
EXTENDS Missile, TLAPS

MissileInv == TypeOK /\ WorkerScheduled

LEMMA InitMissileInv == Init => MissileInv
<1> SUFFICES ASSUME Init PROVE MissileInv
  OBVIOUS
<1>1. 0 \in 0 .. TtlMs /\ Gone \in Gone .. StaleMs
  BY MissileAssumption DEF Gone
<1>2. TypeOK
  BY <1>1 DEF Init, TypeOK
<1>3. QED
  BY <1>2 DEF Init, MissileInv, WorkerScheduled

LEMMA CommandsKeep == ASSUME MissileInv, ShellCommand PROVE MissileInv'
<1> USE DEF MissileInv, TypeOK, WorkerScheduled, missileVars, injectVars
<1>1. CASE Launch
  BY <1>1 DEF Launch
<1>2. CASE Cancel
  BY <1>2 DEF Cancel
<1>3. CASE Inject
  <2>1. 0 \in Gone .. StaleMs
    BY MissileAssumption DEF Gone
  <2>2. QED
    BY <1>3, <2>1 DEF Inject
<1>4. CASE InjectStop
  BY <1>4 DEF InjectStop
<1>5. QED
  BY <1>1, <1>2, <1>3, <1>4 DEF ShellCommand

LEMMA StatementsKeep == ASSUME MissileInv, ShellSteps PROVE MissileInv'
<1> USE DEF MissileInv, TypeOK, WorkerScheduled, missileVars, injectVars
<1>1. 0 \in Gone .. StaleMs /\ TtlMs \in 0 .. TtlMs
  BY MissileAssumption DEF Gone
<1>2. CASE LaunchFind
  BY <1>2 DEF LaunchFind
<1>3. CASE LaunchSet
  BY <1>1, <1>3 DEF LaunchSet
<1>4. CASE LaunchUpsert
  BY <1>1, <1>4 DEF LaunchUpsert
<1>5. CASE LaunchSchedule
  BY <1>5 DEF LaunchSchedule
<1>6. CASE CancelFlag
  BY <1>6 DEF CancelFlag
<1>7. CASE InjectActive
  BY <1>7 DEF InjectActive
<1>8. CASE InjectSchedule
  BY <1>8 DEF InjectSchedule
<1>9. QED
  BY <1>2, <1>3, <1>4, <1>5, <1>6, <1>7, <1>8 DEF ShellSteps

LEMMA WorkersKeep == ASSUME MissileInv, Worker \/ InjectKeepalive PROVE MissileInv'
<1> USE DEF MissileInv, TypeOK, WorkerScheduled, missileVars, injectVars
<1>1. 0 \in Gone .. StaleMs
  BY MissileAssumption DEF Gone
<1>2. CASE Worker
  <2>1. CASE ~s_active
    <3>1. s_work' = FALSE /\ UNCHANGED <<target, s_active, ttl, missile, injectVars, shell>>
      BY <1>2, <2>1 DEF Worker
    <3>2. QED
      BY <2>1, <3>1
  <2>2. CASE s_active /\ s_work' = FALSE
    BY <1>2, <2>2 DEF Worker
  <2>3. CASE s_active /\ s_work' # FALSE
    BY <1>1, <1>2, <2>3 DEF Worker
  <2>4. QED
    BY <2>1, <2>2, <2>3
<1>3. CASE InjectKeepalive
  BY <1>1, <1>3 DEF InjectKeepalive
<1>4. QED
  BY <1>2, <1>3

LEMMA OlderTyped ==
  \A age \in Gone .. StaleMs : Older(age) \in Gone .. StaleMs
  BY MissileAssumption DEF Older, Gone

LEMMA EnvironmentKeeps ==
  ASSUME MissileInv, Impact \/ TargetChanges \/ Advance \/ Reap PROVE MissileInv'
<1> USE DEF MissileInv, TypeOK, WorkerScheduled, missileVars, injectVars
<1>1. CASE Impact
  BY <1>1 DEF Impact
<1>2. CASE TargetChanges
  BY <1>2 DEF TargetChanges
<1>3. CASE Advance
  <2>1. ttl' \in 0 .. TtlMs
    BY <1>3, MissileAssumption DEF Advance
  <2>2. missile' \in Gone .. StaleMs /\ injected' \in Gone .. StaleMs
    BY <1>3, OlderTyped DEF Advance
  <2>3. QED
    BY <1>3, <2>1, <2>2 DEF Advance
<1>4. CASE Reap
  <2>1. Gone \in Gone .. StaleMs
    BY MissileAssumption DEF Gone
  <2>2. QED
    BY <1>4, <2>1 DEF Reap
<1>5. QED
  BY <1>1, <1>2, <1>3, <1>4

LEMMA MissileStepKeeps == ASSUME MissileInv, [Next]_vars PROVE MissileInv'
<1>1. CASE UNCHANGED vars
  BY <1>1 DEF vars, missileVars, injectVars, MissileInv, TypeOK, WorkerScheduled
<1>2. QED
  BY <1>1, CommandsKeep, StatementsKeep, WorkersKeep, EnvironmentKeeps DEF Next

THEOREM Invariance == Spec => []MissileInv
  BY InitMissileInv, MissileStepKeeps, PTL DEF Spec

\* missile.c, collision.c: the flags, the time to live and the ages of the test aircraft's
\* records keep their types.
THEOREM TypeCorrect == Spec => []TypeOK
<1>1. MissileInv => TypeOK
  BY DEF MissileInv
<1>2. QED
  BY <1>1, Invariance, PTL

\* missile_launch, missile_cancel and collision_inject_scenario against the workers: once the
\* shell is done, s_active and s_inject_active are never set without a scheduled worker.
THEOREM WorkersScheduled == Spec => []WorkerScheduled
<1>1. MissileInv => WorkerScheduled
  BY DEF MissileInv
<1>2. QED
  BY <1>1, Invariance, PTL
=============================================================================
