----------------------- MODULE ServiceStatusesProofs -----------------------
(***************************************************************************)
(* The page checks the services no more often than its retry limit allows, *)
(* save for the checks that overlap, for every limit and number of checks. *)
(* The argument: every check that was started has been counted or still    *)
(* runs, so that one more is only started while fewer than LIMIT are       *)
(* accounted for by the counter, the others running at that moment.        *)
(***************************************************************************)
EXTENDS ServiceStatuses, TLAPS

(* A check is counted once, when it ends; what runs was counted into the   *)
(* overlap when it began.                                                  *)
StatusInv ==
    /\ StatusTypeOK
    /\ started = retryCount + Running
    /\ Running <= overlap
    /\ OvershootIsTheOverlap

\* The sum over the stages, without the stages.
LEMMA RunningIsNat ==
    ASSUME NEW n \in Nat, running \in [Stages -> 0..n]
    PROVE  Running \in Nat
BY DEF Stages, Running

(* The initial state: nothing has begun. *)
LEMMA StatusInitial == StatusInit => StatusInv
<1> SUFFICES ASSUME StatusInit PROVE StatusInv
  OBVIOUS
<1> USE StatusAssumption DEF StatusAssumption
<1>1. running \in [Stages -> 0..MaxChecks] /\ Running = 0
  BY DEF StatusInit, Running, Stages
<1>2. {mounted, interval, refreshing} \subseteq BOOLEAN /\ (refreshing <=> button # "none")
  BY DEF StatusInit
<1>3. StatusTypeOK
  BY <1>1, <1>2 DEF StatusInit, StatusTypeOK
<1> QED
  BY <1>1, <1>3 DEF StatusInit, StatusInv, OvershootIsTheOverlap

(* A check that begins is started, runs, and enters the overlap. *)
LEMMA BeginsKeeps ==
    ASSUME StatusInv, TimerBegins, retryCount < LIMIT, UNCHANGED retryCount
    PROVE  /\ running' \in [Stages -> 0..MaxChecks] /\ started' \in 0..MaxChecks
           /\ overlap' \in Nat
           /\ started' = retryCount' + Running' /\ Running' <= overlap'
           /\ OvershootIsTheOverlap'
<1> USE StatusAssumption
<1>1. running \in [Stages -> 0..MaxChecks] /\ started \in 0..MaxChecks /\ overlap \in Nat
      /\ retryCount \in Nat
  BY DEF StatusInv, StatusTypeOK
<1>2. Running \in Nat
  BY <1>1, RunningIsNat
<1>3. running["execution"] <= started
  BY <1>1 DEF StatusInv, Running, Stages
<1>4. running' \in [Stages -> 0..MaxChecks] /\ started' \in 0..MaxChecks
  BY <1>1, <1>3 DEF TimerBegins, Stages
<1>5. Running' = Running + 1
  BY <1>1 DEF TimerBegins, Running, Stages
<1>6. overlap' \in Nat /\ Running' <= overlap'
  BY <1>1, <1>2, <1>5 DEF TimerBegins, Larger
<1>7. started' = retryCount' + Running'
  BY <1>1, <1>2, <1>5 DEF TimerBegins, StatusInv
<1>8. OvershootIsTheOverlap'
  <2>1. LIMIT \in Nat /\ retryCount' = retryCount /\ retryCount + 1 <= LIMIT
    BY <1>1 DEF StatusAssumption
  <2>2. started' + 1 = (retryCount + 1) + Running' /\ Running' \in Nat
    BY <1>1, <1>2, <1>5, <1>7, <2>1
  <2>3. started' + 1 <= LIMIT + overlap'
    BY <1>1, <1>6, <2>1, <2>2
  <2> QED
    BY <2>3 DEF OvershootIsTheOverlap
<1> QED
  BY <1>4, <1>6, <1>7, <1>8

(* Every action keeps the invariant. *)
LEMMA StatusPreserved == StatusInv /\ [StatusNext]_statusVars => StatusInv'
<1> SUFFICES ASSUME StatusInv, [StatusNext]_statusVars PROVE StatusInv'
  OBVIOUS
<1> USE StatusAssumption
<1> USE DEF StatusInv, StatusTypeOK
<1>0. Running \in Nat
  BY RunningIsNat
<1>1. CASE Mount
  <2>1. retryCount = 0
    BY <1>1, <1>0 DEF Mount
  <2> QED
    BY <1>1, <2>1, BeginsKeeps DEF Mount
<1>2. CASE Tick
  <2>1. CASE retryCount < LIMIT /\ TimerBegins /\ UNCHANGED interval
    BY <1>2, <2>1, BeginsKeeps DEF Tick
  <2>2. CASE UNCHANGED <<running, started, overlap>> /\ interval' = FALSE
    BY <1>2, <2>2 DEF Tick, Running, OvershootIsTheOverlap
  <2> QED
    BY <1>2, <2>1, <2>2 DEF Tick
<1>3. CASE Refresh
  BY <1>3 DEF Refresh, Running, Stages, OvershootIsTheOverlap
<1>4. CASE Unmount
  BY <1>4 DEF Unmount, Running, OvershootIsTheOverlap
<1>5. CASE Count
  <2>1. running' \in [Stages -> 0..MaxChecks] /\ Running' = Running - 1
    BY <1>5 DEF Count, Ends, Running, Stages
  <2>2. interval' \in BOOLEAN
    BY <1>5 DEF Count
  <2> QED
    BY <1>0, <1>5, <2>1, <2>2 DEF Count, Ends, OvershootIsTheOverlap
<1>6. CASE Refreshed
  BY <1>6 DEF Refreshed, Running, OvershootIsTheOverlap
<1>7. ASSUME NEW stage \in Stages, Fetched(stage) PROVE StatusInv'
  <2> PICK up \in BOOLEAN :
         \/ /\ running[stage] > 0
            /\ running' = [running EXCEPT ![stage] = @ - 1, ![After(stage, up)] = @ + 1]
            /\ UNCHANGED button
         \/ button = stage /\ button' = After(stage, up) /\ UNCHANGED running
    BY <1>7 DEF Fetched
  <2>1. After(stage, up) \in Stages \ {stage} /\ stage # "end"
    BY <1>7 DEF Fetched, After, Stages
  <2>2. CASE /\ running[stage] > 0
             /\ running' = [running EXCEPT ![stage] = @ - 1, ![After(stage, up)] = @ + 1]
             /\ UNCHANGED button
    <3>0. \A s \in Stages : running[s] \in Nat
      OBVIOUS
    <3>1. running[After(stage, up)] + running[stage] <= MaxChecks
      <4>1. Running <= MaxChecks /\ MaxChecks \in Nat
        BY <1>0 DEF StatusAssumption
      <4>2. /\ running["execution"] \in Nat /\ running["health"] \in Nat
            /\ running["fallback"] \in Nat /\ running["end"] \in Nat
        BY <3>0 DEF Stages
      <4>3. \A s, t \in Stages : s # t => running[s] + running[t] <= Running
        BY ONLY <4>2 DEF Running, Stages
      <4>4. running[After(stage, up)] + running[stage] <= Running
        BY <2>1, <4>3
      <4> QED
        BY ONLY <2>1, <3>0, <1>0, <4>1, <4>4
    <3>2. running' \in [Stages -> 0..MaxChecks]
      BY <2>1, <2>2, <3>1 DEF Stages
    <3>3. Running' = Running
      <4> DEFINE to == After(stage, up)
      <4>1. stage \in Stages /\ to \in Stages /\ stage # to
        BY <2>1
      <4>2. /\ running'[stage] = running[stage] - 1 /\ running'[to] = running[to] + 1
            /\ \A s \in Stages \ {stage, to} : running'[s] = running[s]
        BY <2>2, <4>1
      <4> HIDE DEF to
      <4> QED
        BY ONLY <3>0, <4>1, <4>2 DEF Running, Stages
    <3> QED
      BY <1>7, <2>2, <3>2, <3>3 DEF Fetched, OvershootIsTheOverlap
  <2>3. CASE button = stage /\ button' = After(stage, up) /\ UNCHANGED running
    <3>1. button' \in Stages /\ button # "none" /\ button' # "none"
      BY <2>1, <2>3 DEF Stages
    <3> QED
      BY <1>7, <2>3, <3>1 DEF Fetched, Running, OvershootIsTheOverlap
  <2> QED
    BY <2>2, <2>3
<1>8. CASE AtRest \/ UNCHANGED statusVars
  BY <1>8 DEF AtRest, statusVars, Running, OvershootIsTheOverlap
<1> QED
  BY <1>1, <1>2, <1>3, <1>4, <1>5, <1>6, <1>7, <1>8 DEF StatusNext, GoesOn

(* The inductive invariant holds in every reachable state of               *)
(* useServiceStatuses.                                                     *)
THEOREM StatusInvariant == StatusSpec => []StatusInv
BY StatusInitial, StatusPreserved, PTL DEF StatusSpec

(* Types of the counters, flags and stages of useServiceStatuses. *)
THEOREM StatusTypeCorrect == StatusSpec => []StatusTypeOK
<1>1. StatusInv => StatusTypeOK
  BY DEF StatusInv
<1> QED
  BY <1>1, StatusInvariant, PTL

(* The retry counter of useServiceStatuses, written after an await, loses  *)
(* no count: the checks overshoot the limit by their overlap alone.        *)
THEOREM OvershootHolds == StatusSpec => []OvershootIsTheOverlap
<1>1. StatusInv => OvershootIsTheOverlap
  BY DEF StatusInv
<1> QED
  BY <1>1, StatusInvariant, PTL
=============================================================================
