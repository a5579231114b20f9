------------------------- MODULE K0sLifecycleProofs -------------------------
(***************************************************************************)
(* What Bootstrap's OK and a Reset without company promise, for any number  *)
(* of callers, calls and failures.                                          *)
(***************************************************************************)
EXTENDS K0sLifecycle, TLAPS

-----------------------------------------------------------------------------
(* Types *)

LEMMA TypeInit == Init => TypeOK
  <1> SUFFICES ASSUME Init PROVE TypeOK
    OBVIOUS
  <1>1. MaxClusters \in Nat
    BY K0sAssumption DEF K0sAssumption, MaxClusters
  <1>2. image \subseteq k0sSysextPaths
    BY DEF Init
  <1>3. pc \in [Callers -> {"idle"} \cup BootSteps \cup ResetSteps]
    BY DEF Init
  <1>4. held \in [Callers -> 0..lived] /\ seen \in [Callers -> SUBSET (1..lived)]
    BY DEF Init
  <1>5. merged \in BOOLEAN
    BY DEF Init
  <1>6. enabled \in BOOLEAN /\ unit \in {"inactive", "active", "failed"} /\ ~ready
        /\ ready \in BOOLEAN /\ admin = 0 /\ api = 0 /\ record = 0 /\ halting = "no"
        /\ missed \in SUBSET {"company", "stop", "disable"}
    BY DEF Init
  <1>7. lived \in 0..MaxClusters /\ acts \in 0..MaxActs /\ faults \in 0..MaxFaults
    BY <1>1, K0sAssumption DEF Init, K0sAssumption
  <1> QED
    BY <1>2, <1>3, <1>4, <1>5, <1>6, <1>7 DEF TypeOK

\* A step of a call keeps pc's type.
LEMMA PcTyped ==
  ASSUME TypeOK, NEW c \in Callers, NEW p \in {"idle"} \cup BootSteps \cup ResetSteps, Goto(c, p)
  PROVE  pc' \in [Callers -> {"idle"} \cup BootSteps \cup ResetSteps]
  BY DEF TypeOK, Goto

\* What k0s is, and what the datastore has of it, when it stops or goes on.
RunTypes ==
    /\ unit \in {"inactive", "active", "failed"} /\ admin \in {0, lived}
    /\ api \in 0..lived /\ (api # 0 => unit = "active")
    /\ ready \in BOOLEAN /\ (ready => api # 0 /\ record = api) /\ record \in 0..lived

LEMMA RunStops ==
  ASSUME TypeOK, admin' = admin, lived' = lived, Down, unit' \in {"inactive", "active", "failed"}
  PROVE  RunTypes'
  <1>1. lived \in Nat
    BY K0sAssumption DEF K0sAssumption, MaxClusters, TypeOK
  <1>2. ready' \in BOOLEAN /\ ~ready'
    BY DEF Down
  <1>3. api' = 0 /\ record' = record
    BY DEF Down
  <1> QED
    BY <1>1, <1>2, <1>3 DEF TypeOK, RunTypes

LEMMA RunGoes ==
  ASSUME TypeOK, admin' = admin, lived' = lived, run' = run,
         unit' \in {unit, "active"} \/ (api = 0 /\ unit' = "failed")
  PROVE  RunTypes'
  BY DEF run, TypeOK, RunTypes

LEMMA TypeNext == TypeOK /\ [Next]_vars => TypeOK'
  <1> SUFFICES ASSUME TypeOK, [Next]_vars PROVE TypeOK'
    OBVIOUS
  <1>0. MaxClusters \in Nat /\ MaxActs \in Nat /\ MaxFaults \in Nat
    BY K0sAssumption DEF MaxClusters, K0sAssumption
  <1>1. ASSUME NEW c \in Callers, Bootstrap(c) PROVE TypeOK'
    <2>1. faults' \in 0..MaxFaults /\ acts' \in 0..MaxActs
      BY <1>0, <1>1 DEF Bootstrap, k0s, TypeOK
    <2>2. pc' \in [Callers -> {"idle"} \cup BootSteps \cup ResetSteps]
      BY <1>1, PcTyped DEF Bootstrap, k0s, BootSteps, ResetSteps
    <2>3. {record} \ {0} \in SUBSET (1..lived)
      BY <1>0 DEF TypeOK
    <2>4. seen' \in [Callers -> SUBSET (1..lived)]
      BY <1>1, <2>3 DEF Bootstrap, TypeOK
    <2> QED
      BY <1>1, <2>1, <2>2, <2>4 DEF Bootstrap, Company, k0s, run, TypeOK
  <1>2. ASSUME NEW c \in Callers, BootstrapStep(c) PROVE TypeOK'
    <2>1. CASE K0sSysextLocation(c)
      <3>1. faults' \in 0..MaxFaults /\ acts' \in 0..MaxActs
        BY <1>0, <2>1 DEF K0sSysextLocation, TypeOK
      <3>2. pc' \in [Callers -> {"idle"} \cup BootSteps \cup ResetSteps]
        BY <2>1, PcTyped DEF K0sSysextLocation, BootSteps, ResetSteps
      <3> QED
        BY <1>0, <2>1, <3>1, <3>2 DEF K0sSysextLocation, k0s, run, hist, TypeOK
    <2>2. CASE K0sMerged(c)
      <3>1. faults' \in 0..MaxFaults /\ acts' \in 0..MaxActs
        BY <1>0, <2>2 DEF K0sMerged, Faulty, TypeOK
      <3>2. pc' \in [Callers -> {"idle"} \cup BootSteps \cup ResetSteps]
        BY <2>2, PcTyped DEF K0sMerged, BootSteps, ResetSteps
      <3> QED
        BY <1>0, <2>2, <3>1, <3>2 DEF K0sMerged, k0s, run, hist, TypeOK
    <2>3. CASE MergeSysext(c)
      <3>1. faults' \in 0..MaxFaults /\ acts' \in 0..MaxActs
        BY <1>0, <2>3 DEF MergeSysext, TypeOK
      <3>2. pc' \in [Callers -> {"idle"} \cup BootSteps \cup ResetSteps]
        BY <2>3, PcTyped DEF MergeSysext, BootSteps, ResetSteps
      <3> QED
        BY <1>0, <2>3, <3>1, <3>2 DEF MergeSysext, run, hist, TypeOK
    <2>4. CASE StartController(c)
      <3>1. faults' \in 0..MaxFaults /\ acts' \in 0..MaxActs
        BY <1>0, <2>4 DEF StartController, TypeOK
      <3>2. pc' \in [Callers -> {"idle"} \cup BootSteps \cup ResetSteps]
        BY <2>4, PcTyped DEF StartController, BootSteps, ResetSteps
      <3> QED
        BY <1>0, <2>4, <3>1, <3>2 DEF StartController, run, hist, TypeOK
    <2>5. CASE LocalAPIClient(c)
      <3>1. faults' \in 0..MaxFaults /\ acts' \in 0..MaxActs
        BY <1>0, <2>5 DEF LocalAPIClient, TypeOK
      <3>2. pc' \in [Callers -> {"idle"} \cup BootSteps \cup ResetSteps]
        BY <2>5, PcTyped DEF LocalAPIClient, BootSteps, ResetSteps
      <3> QED
        <4>1. held' \in [Callers -> 0..lived']
          BY <1>0, <2>5 DEF LocalAPIClient, k0s, TypeOK
        <4> QED
          BY <2>5, <3>1, <3>2, <4>1 DEF LocalAPIClient, k0s, run, hist, TypeOK
    <2>6. CASE FetchNodes(c)
      <3>1. faults' \in 0..MaxFaults /\ acts' \in 0..MaxActs
        BY <1>0, <2>6 DEF FetchNodes, Faulty, TypeOK
      <3>2. pc' \in [Callers -> {"idle"} \cup BootSteps \cup ResetSteps]
        BY <2>6, PcTyped DEF FetchNodes, BootSteps, ResetSteps
      <3> QED
        BY <1>0, <2>6, <3>1, <3>2 DEF FetchNodes, k0s, run, hist, TypeOK
    <2>7. CASE Tick(c)
      <3>1. faults' \in 0..MaxFaults /\ acts' \in 0..MaxActs
        BY <1>0, <2>7 DEF Tick, TypeOK
      <3>2. pc' \in [Callers -> {"idle"} \cup BootSteps \cup ResetSteps]
        BY <2>7, PcTyped DEF Tick, From, BootSteps, ResetSteps
      <3> QED
        BY <1>0, <2>7, <3>1, <3>2 DEF Tick, From, k0s, run, hist, TypeOK
    <2>8. CASE Deadline(c)
      <3>1. faults' \in 0..MaxFaults /\ acts' \in 0..MaxActs
        BY <1>0, <2>8 DEF Deadline, TypeOK
      <3>2. pc' \in [Callers -> {"idle"} \cup BootSteps \cup ResetSteps]
        BY <2>8, PcTyped DEF Deadline, From, BootSteps, ResetSteps
      <3> QED
        BY <1>0, <2>8, <3>1, <3>2 DEF Deadline, From, k0s, run, hist, TypeOK
    <2> QED
      BY <1>2, <2>1, <2>2, <2>3, <2>4, <2>5, <2>6, <2>7, <2>8 DEF BootstrapStep
  <1>3. ASSUME NEW c \in Callers, Reset(c) PROVE TypeOK'
    <2>1. faults' \in 0..MaxFaults /\ acts' \in 0..MaxActs
      BY <1>0, <1>3 DEF Reset, k0s, Acts, TypeOK
    <2>2. pc' \in [Callers -> {"idle"} \cup BootSteps \cup ResetSteps]
      BY <1>3, PcTyped DEF Reset, k0s, BootSteps, ResetSteps
    <2> QED
      BY <1>0, <1>3, <2>1, <2>2 DEF Reset, k0s, run, TypeOK
  <1>4. ASSUME NEW c \in Callers, ResetStep(c) PROVE TypeOK'
    <2>1. CASE StopUnit(c)
      <3>1. faults' \in 0..MaxFaults /\ acts' \in 0..MaxActs
        BY <1>0, <2>1 DEF StopUnit, Faulty, TypeOK
      <3>2. pc' \in [Callers -> {"idle"} \cup BootSteps \cup ResetSteps]
        BY <2>1, PcTyped DEF StopUnit, From, BootSteps, ResetSteps
      <3> QED
        <4>1. Stopped \in {"inactive", "failed"}
          BY DEF Stopped, TypeOK
        <4>2. missed' \in SUBSET {"company", "stop", "disable"}
          BY <2>1 DEF StopUnit, Misses, TypeOK
        <4>3. (Down /\ unit' = Stopped) \/ UNCHANGED <<unit, run>>
          BY <2>1 DEF StopUnit
        <4>4. RunTypes'
          <5>1. admin' = admin /\ lived' = lived
            BY <2>1 DEF StopUnit
          <5>2. CASE Down /\ unit' = Stopped
            <6>1. unit' \in {"inactive", "active", "failed"}
              BY <4>1, <5>2
            <6> QED
              BY <5>1, <5>2, <6>1, RunStops
          <5>3. CASE UNCHANGED <<unit, run>>
            <6>1. run' = run /\ unit' = unit
              BY <5>3 DEF run
            <6> QED
              BY <5>1, <6>1, RunGoes
          <5> QED
            BY <4>3, <5>2, <5>3
        <4> QED
          BY <2>1, <3>1, <3>2, <4>2, <4>4 DEF StopUnit, RunTypes, TypeOK
    <2>2. CASE DisableUnit(c)
      <3>1. faults' \in 0..MaxFaults /\ acts' \in 0..MaxActs
        BY <1>0, <2>2 DEF DisableUnit, Faulty, TypeOK
      <3>2. pc' \in [Callers -> {"idle"} \cup BootSteps \cup ResetSteps]
        BY <2>2, PcTyped DEF DisableUnit, From, BootSteps, ResetSteps
      <3> QED
        BY <1>0, <2>2, <3>1, <3>2 DEF DisableUnit, From, Misses, run, TypeOK
    <2>3. CASE K0sReset(c)
      <3>1. faults' \in 0..MaxFaults /\ acts' \in 0..MaxActs
        BY <1>0, <2>3 DEF K0sReset, Faulty, TypeOK
      <3>2. pc' \in [Callers -> {"idle"} \cup BootSteps \cup ResetSteps]
        BY <2>3, PcTyped DEF K0sReset, From, BootSteps, ResetSteps
      <3> QED
        BY <1>0, <2>3, <3>1, <3>2 DEF K0sReset, From, hist, run, TypeOK
    <2>4. CASE RemoveStateDirs(c)
      <3>1. faults' \in 0..MaxFaults /\ acts' \in 0..MaxActs
        BY <1>0, <2>4 DEF RemoveStateDirs, TypeOK
      <3>2. pc' \in [Callers -> {"idle"} \cup BootSteps \cup ResetSteps]
        BY <2>4, PcTyped DEF RemoveStateDirs, From, BootSteps, ResetSteps
      <3> QED
        BY <1>0, <2>4, <3>1, <3>2 DEF RemoveStateDirs, From, k0s, run, hist, TypeOK
    <2>5. CASE UnmergeSysext(c)
      <3>1. faults' \in 0..MaxFaults /\ acts' \in 0..MaxActs
        BY <1>0, <2>5 DEF UnmergeSysext, Faulty, TypeOK
      <3>2. pc' \in [Callers -> {"idle"} \cup BootSteps \cup ResetSteps]
        BY <2>5, PcTyped DEF UnmergeSysext, From, BootSteps, ResetSteps
      <3> QED
        BY <1>0, <2>5, <3>1, <3>2 DEF UnmergeSysext, From, hist, run, TypeOK
    <2>6. CASE ResetReboots(c)
      <3>1. faults' \in 0..MaxFaults /\ acts' \in 0..MaxActs
        BY <1>0, <2>6 DEF ResetReboots, TypeOK
      <3>2. pc' \in [Callers -> {"idle"} \cup BootSteps \cup ResetSteps]
        BY <2>6, PcTyped DEF ResetReboots, From, BootSteps, ResetSteps
      <3> QED
        BY <1>0, <2>6, <3>1, <3>2 DEF ResetReboots, From, k0s, run, hist, TypeOK
    <2> QED
      BY <1>4, <2>1, <2>2, <2>3, <2>4, <2>5, <2>6 DEF ResetStep
  <1>5. ASSUME NEW c \in Callers, NEW action \in {"start", "stop", "restart"},
               ServiceAction(c, action)
        PROVE  TypeOK'
    <2>1. faults' \in 0..MaxFaults /\ acts' \in 0..MaxActs
      BY <1>0, <1>5 DEF ServiceAction, Acts, TypeOK
    <2>2. Stopped \in {"inactive", "failed"}
      BY DEF Stopped, TypeOK
    <2>3. \/ Down /\ unit' \in {"inactive", "active", "failed"}
          \/ UNCHANGED run /\ unit' = "active"
      BY <1>5, <2>2 DEF ServiceAction
    <2>4. RunTypes'
      <3>1. admin' = admin /\ lived' = lived
        BY <1>5 DEF ServiceAction
      <3> QED
        BY <2>3, <3>1, RunStops, RunGoes
    <2> QED
      BY <1>5, <2>1, <2>4 DEF ServiceAction, Company, RunTypes, TypeOK
  <1>6. ASSUME NEW c \in Callers, NEW mode \in {"reboot", "poweroff"}, Reboot(c, mode)
        PROVE  TypeOK'
    <2>1. faults' \in 0..MaxFaults /\ acts' \in 0..MaxActs
      BY <1>0, <1>6 DEF Reboot, Acts, TypeOK
    <2> QED
      BY <1>0, <1>6, <2>1 DEF Reboot, Company, k0s, run, TypeOK
  <1>7. ASSUME NEW c \in Callers, CallFails(c) PROVE TypeOK'
    <2>1. faults' \in 0..MaxFaults /\ acts' \in 0..MaxActs
      BY <1>0, <1>7 DEF CallFails, Faulty, TypeOK
    <2>2. pc' \in [Callers -> {"idle"} \cup BootSteps \cup ResetSteps]
      BY <1>7, PcTyped DEF CallFails, BootSteps, ResetSteps
    <2> QED
      <3>1. enabled' \in BOOLEAN /\ (unit' = unit \/ (api = 0 /\ unit' = "failed"))
        <4>1. CASE UNCHANGED <<enabled, unit>>
          BY <4>1 DEF TypeOK
        <4>2. CASE unit # "active" /\ enabled' = TRUE /\ unit' = "failed"
          BY <4>2 DEF TypeOK
        <4> QED
          BY <1>7, <4>1, <4>2 DEF CallFails
      <3>2. RunTypes'
        BY <1>7, <3>1, RunGoes DEF CallFails, run
      <3> QED
        BY <1>7, <2>1, <2>2, <3>1, <3>2 DEF CallFails, hist, RunTypes, TypeOK
  <1>8. CASE FoundCluster
    <2>1. faults' \in 0..MaxFaults /\ acts' \in 0..MaxActs
      BY <1>0, <1>8 DEF FoundCluster, TypeOK
    <2>2. lived \in Nat /\ lived' = lived + 1 /\ lived' \in 0..MaxClusters /\ admin' = lived'
      BY <1>0, <1>8 DEF FoundCluster, TypeOK
    <2>3. RunTypes'
      BY <1>8, <2>2 DEF FoundCluster, run, RunTypes, TypeOK
    <2>4. 0..lived \subseteq 0..lived' /\ 1..lived \subseteq 1..lived'
      BY <2>2
    <2>5. held' \in [Callers -> 0..lived'] /\ seen' \in [Callers -> SUBSET (1..lived')]
      BY <1>8, <2>4 DEF FoundCluster, hist, TypeOK
    <2> QED
      BY <1>8, <2>1, <2>2, <2>3, <2>5 DEF FoundCluster, hist, RunTypes, TypeOK
  <1>9. CASE ApiUp \/ RecordLapses
    <2>1. faults' \in 0..MaxFaults /\ acts' \in 0..MaxActs
      BY <1>0, <1>9 DEF ApiUp, RecordLapses, TypeOK
    <2>2. lived \in Nat
      BY <1>0 DEF TypeOK
    <2>3. ~ready /\ ready' = ready /\ api' \in {api, admin} /\ (api' # 0 => unit = "active")
      BY <1>9 DEF ApiUp, RecordLapses, TypeOK
    <2>4. ~ready' /\ ready' \in BOOLEAN
      BY <2>3 DEF TypeOK
    <2>5. record' \in {record, 0} /\ UNCHANGED <<unit, admin, lived>>
      BY <1>9 DEF ApiUp, RecordLapses
    <2>6. RunTypes'
      BY <2>2, <2>3, <2>4, <2>5 DEF RunTypes, TypeOK
    <2>7. UNCHANGED <<image, merged, enabled, halting, pc, held, acts, faults, seen, missed>>
      BY <1>9 DEF ApiUp, RecordLapses, hist
    <2> QED
      BY <2>1, <2>5, <2>6, <2>7 DEF RunTypes, TypeOK
  <1>10. CASE BecomeReady
    <2>1. faults' \in 0..MaxFaults /\ acts' \in 0..MaxActs
      BY <1>0, <1>10 DEF BecomeReady, TypeOK
    <2>2. api \in 1..lived /\ seen' \in [Callers -> SUBSET (1..lived)]
      BY <1>0, <1>10 DEF BecomeReady, TypeOK
    <2> QED
      BY <1>10, <2>1, <2>2 DEF BecomeReady, TypeOK
  <1>13. CASE K0sFails
    <2>1. faults' \in 0..MaxFaults /\ acts' \in 0..MaxActs
      BY <1>0, <1>13 DEF K0sFails, Faulty, TypeOK
    <2>2. RunTypes'
      BY <1>13, RunStops DEF K0sFails
    <2> QED
      BY <1>13, <2>1, <2>2 DEF K0sFails, hist, RunTypes, TypeOK
  <1>11. CASE Boot
    <2>1. faults' \in 0..MaxFaults /\ acts' \in 0..MaxActs
      BY <1>0, <1>11 DEF Boot, Faulty, TypeOK
    <2> QED
      <3>1. merged' \in BOOLEAN
        <4>1. merged' = ("/var/lib/extensions" \in image)
          BY <1>11, Zenon DEF Boot
        <4> QED
          BY <4>1
      <3>2. unit' \in {"inactive", "active", "failed"}
        BY <1>11, <3>1 DEF Boot
      <3>3. pc' \in [Callers -> {"idle"} \cup BootSteps \cup ResetSteps]
        BY <1>11 DEF Boot
      <3>4. held' \in [Callers -> 0..lived'] /\ seen' \in [Callers -> SUBSET (1..lived')]
        BY <1>0, <1>11 DEF Boot, TypeOK
      <3>5. RunTypes'
        BY <1>11, <3>2, RunStops DEF Boot
      <3> QED
        BY <1>11, <2>1, <3>1, <3>3, <3>4, <3>5 DEF Boot, Company, RunTypes, TypeOK
  <1>12. CASE UNCHANGED vars
    BY <1>0, <1>12 DEF vars, k0s, run, hist, TypeOK
  <1> QED
    BY <1>1, <1>2, <1>3, <1>4, <1>5, <1>6, <1>7, <1>8, <1>9, <1>10, <1>11, <1>12, <1>13
       DEF Next, Shutdown

\* Every variable keeps its type, and an apiserver answers only while the controller
\* runs, and a node that is Ready is on record so (k0s.go, kubeconfig.go, lifecycle.go).
THEOREM TypeCorrect == Spec => []TypeOK
  BY TypeInit, TypeNext, PTL DEF Spec

-----------------------------------------------------------------------------
(* OkMeansReady *)

\* While a Bootstrap runs, it has seen what is on record as Ready.
Witnessed ==
    /\ \A c \in Callers : pc[c] \in BootSteps \ {"ok"} /\ record # 0 => record \in seen[c]
    /\ OkMeansReady

LEMMA WitnessedNext == TypeOK /\ Witnessed /\ [Next]_vars => Witnessed'
  <1> SUFFICES ASSUME TypeOK, Witnessed, [Next]_vars PROVE Witnessed'
    OBVIOUS
  <1>1. ASSUME NEW c \in Callers, Bootstrap(c) PROVE Witnessed'
    BY <1>1 DEF Bootstrap, Goto, k0s, run, TypeOK, Witnessed, OkMeansReady, BootSteps
  <1>2. ASSUME NEW c \in Callers, NEW p \in {"idle", "status", "merge", "start", "client", "fetch", "wait"}
                 \cup ResetSteps,
               pc[c] \in BootSteps \ {"ok"} \/ p \in {"idle"} \cup ResetSteps, Goto(c, p),
               record' = record, UNCHANGED seen, \A d \in Callers : d # c => held'[d] = held[d]
        PROVE  Witnessed'
    BY <1>2 DEF Goto, TypeOK, Witnessed, OkMeansReady, BootSteps, ResetSteps
  <1>3. ASSUME NEW c \in Callers, FetchNodes(c) PROVE Witnessed'
    <2>1. CASE NodeListReady(c) /\ Goto(c, "ok")
      <3>1. held[c] \in seen[c]
        BY <1>3, <2>1 DEF NodeListReady, FetchNodes, Witnessed, BootSteps
      <3> QED
        BY <1>3, <2>1, <3>1 DEF FetchNodes, Goto, k0s, run, hist, TypeOK, Witnessed, OkMeansReady, BootSteps
    <2>2. CASE Goto(c, "wait")
      BY <1>2, <1>3, <2>2 DEF FetchNodes, k0s, run, hist, BootSteps
    <2> QED
      BY <1>3, <2>1, <2>2 DEF FetchNodes
  <1>4. CASE BecomeReady
    BY <1>4 DEF BecomeReady, TypeOK, Witnessed, OkMeansReady
  <1>5. CASE record' \in {record, 0} /\ UNCHANGED <<pc, held, seen>>
    BY <1>5 DEF Witnessed, OkMeansReady
  <1>6. CASE Boot
    BY <1>6 DEF Boot, Witnessed, OkMeansReady, BootSteps
  <1>7. ASSUME NEW c \in Callers, BootstrapStep(c) PROVE Witnessed'
    <2>1. CASE K0sSysextLocation(c) \/ K0sMerged(c)
      BY <1>2, <2>1 DEF K0sSysextLocation, K0sMerged, k0s, run, hist, BootSteps
    <2>2. CASE MergeSysext(c)
      BY <1>2, <2>2 DEF MergeSysext, run, hist, BootSteps
    <2>3. CASE StartController(c)
      BY <1>2, <2>3 DEF StartController, run, hist, BootSteps
    <2>4. CASE LocalAPIClient(c)
      BY <1>2, <2>4 DEF LocalAPIClient, k0s, run, hist, BootSteps, TypeOK
    <2>5. CASE Tick(c) \/ Deadline(c)
      BY <1>2, <2>5 DEF Tick, Deadline, From, k0s, run, hist, BootSteps
    <2> QED
      BY <1>3, <1>7, <2>1, <2>2, <2>3, <2>4, <2>5 DEF BootstrapStep
  <1>8. ASSUME NEW c \in Callers, Reset(c) PROVE Witnessed'
    BY <1>2, <1>8 DEF Reset, k0s, run, ResetSteps
  <1>9. ASSUME NEW c \in Callers, ResetStep(c) PROVE Witnessed'
    <2>1. CASE StopUnit(c) \/ DisableUnit(c) \/ K0sReset(c)
      BY <1>2, <2>1 DEF StopUnit, DisableUnit, K0sReset, From, Down, run, hist, ResetSteps
    <2>2. CASE RemoveStateDirs(c) \/ UnmergeSysext(c) \/ ResetReboots(c)
      BY <1>2, <2>2 DEF RemoveStateDirs, UnmergeSysext, ResetReboots, From, k0s, run, hist, ResetSteps
    <2> QED
      BY <1>9, <2>1, <2>2 DEF ResetStep
  <1>10. ASSUME NEW c \in Callers, CallFails(c) PROVE Witnessed'
    BY <1>2, <1>10 DEF CallFails, run, hist
  <1>11. ASSUME NEW c \in Callers, NEW action \in {"start", "stop", "restart"},
                ServiceAction(c, action)
         PROVE  Witnessed'
    BY <1>5, <1>11 DEF ServiceAction, Down, run
  <1>12. ASSUME NEW c \in Callers, NEW mode \in {"reboot", "poweroff"}, Reboot(c, mode)
         PROVE  Witnessed'
    BY <1>5, <1>12 DEF Reboot, k0s, run
  <1>13. CASE FoundCluster \/ ApiUp \/ RecordLapses \/ K0sFails \/ UNCHANGED vars
    BY <1>5, <1>13 DEF FoundCluster, ApiUp, RecordLapses, K0sFails, Down, vars, k0s, run, hist
  <1> QED
    BY <1>1, <1>4, <1>6, <1>7, <1>8, <1>9, <1>10, <1>11, <1>12, <1>13 DEF Next, Shutdown

\* k0s.go:104-128: Bootstrap answers OK only of the cluster it has read the credentials
\* of, and only if the node was Ready there, or on record as Ready, during the call.
THEOREM OkCorrect == Spec => []OkMeansReady
  <1>1. Init => Witnessed
    BY DEF Init, Witnessed, OkMeansReady, BootSteps
  <1>2. Witnessed => OkMeansReady
    BY DEF Witnessed
  <1> QED
    BY <1>1, <1>2, TypeCorrect, WitnessedNext, PTL DEF Spec

-----------------------------------------------------------------------------
(* ResetIsClean *)

\* What a Reset without company has achieved when its call c is where it is.
Undone(c) ==
    /\ pc[c] # "stop" /\ "stop" \notin missed => unit # "active"
    /\ pc[c] \notin {"stop", "disable"} /\ "disable" \notin missed => ~enabled
    /\ pc[c] \in {"unmerge", "reboot"} /\ "stop" \notin missed => admin = 0

\* What it leaves when it has asked for the reboot.
Wiped ==
    /\ "stop" \notin missed => unit # "active" /\ admin = 0
    /\ "disable" \notin missed => ~enabled

\* As long as a Reset has no company it is the only call, and when it has asked for
\* the reboot there is none.
Undisturbed ==
    "company" \notin missed =>
      /\ \A c \in Callers : Calm(c) \/ InReset(c)
      /\ \A c, d \in Callers : InReset(c) /\ InReset(d) => c = d
      /\ \A c \in Callers : InReset(c) => halting = "no" /\ Undone(c)
      /\ halting = "reboot" => Wiped

LEMMA UndisturbedNext == TypeOK /\ Undisturbed /\ [Next]_vars => Undisturbed'
  <1> SUFFICES ASSUME TypeOK, Undisturbed, [Next]_vars, "company" \notin missed'
               PROVE  Undisturbed'
    BY DEF Undisturbed
  <1> USE DEF Undisturbed
  <1>1. ASSUME NEW c \in Callers, Reset(c) PROVE Undisturbed'
    <2>1. halting = "no" /\ \A d \in Callers : Calm(d)
      BY <1>1 DEF Reset
    <2>2. halting' = "no" /\ pc' = [pc EXCEPT ![c] = "stop"]
      BY <1>1, <2>1 DEF Reset, Goto
    <2> QED
      BY <2>1, <2>2 DEF Calm, InReset, Undone, Wiped, ResetSteps, TypeOK
  <1>2. ASSUME NEW c \in Callers, ResetStep(c) PROVE Undisturbed'
    <2>1. "company" \notin missed /\ InReset(c)
      BY <1>2 DEF ResetStep, StopUnit, DisableUnit, K0sReset, RemoveStateDirs, UnmergeSysext,
                  ResetReboots, From, Misses, hist, InReset, ResetSteps
    <2>2. \A d \in Callers : d # c => Calm(d)
      BY <2>1
    <2>3. halting = "no" /\ Undone(c)
      BY <2>1
    <2>4. ASSUME NEW p \in {"idle"} \cup ResetSteps, Goto(c, p),
                 p # "idle" => halting' = "no" /\ Undone(c)',
                 halting' = "reboot" => Wiped'
          PROVE  Undisturbed'
      <3>1. pc' = [pc EXCEPT ![c] = p] /\ \A d \in Callers : d # c => pc'[d] = pc[d]
        BY <2>4 DEF Goto, TypeOK
      <3>2. \A d \in Callers : d # c => Calm(d)' /\ ~InReset(d)'
        BY <2>2, <3>1 DEF Calm, InReset, ResetSteps
      <3>3. pc'[c] = p
        BY <3>1 DEF TypeOK
      <3> QED
        BY <2>4, <3>2, <3>3 DEF Calm, InReset, ResetSteps
    <2>5. CASE StopUnit(c)
      <3>1. ("stop" \notin missed' => unit' # "active") /\ halting' = "no" /\ pc'[c] = "disable"
        BY <2>1, <2>3, <2>5 DEF StopUnit, From, Goto, Stopped, Misses, TypeOK
      <3> QED
        BY <2>4, <2>5, <3>1 DEF StopUnit, From, Undone, ResetSteps
    <2>6. CASE DisableUnit(c)
      <3>1. "disable" \notin missed' => ~enabled'
        BY <2>1, <2>6 DEF DisableUnit, Misses
      <3>2. "stop" \notin missed' => "stop" \notin missed
        BY <2>1, <2>6 DEF DisableUnit, Misses
      <3>3. "stop" \notin missed' => unit' # "active"
        BY <2>3, <2>6, <3>2 DEF DisableUnit, From, Undone
      <3>4. halting' = "no" /\ pc'[c] = "k0sreset"
        BY <2>3, <2>6 DEF DisableUnit, From, Goto, TypeOK
      <3> QED
        BY <2>4, <2>6, <3>1, <3>3, <3>4 DEF DisableUnit, From, Undone, ResetSteps
    <2>7. CASE K0sReset(c)
      <3>1. /\ "stop" \notin missed' => unit' # "active"
            /\ "disable" \notin missed' => ~enabled'
            /\ halting' = "no" /\ pc'[c] = "remove"
        BY <2>3, <2>7 DEF K0sReset, From, Goto, Undone, hist, TypeOK
      <3> QED
        BY <2>4, <2>7, <3>1 DEF K0sReset, From, Undone, ResetSteps
    <2>8. CASE RemoveStateDirs(c)
      <3>1. Wiped' /\ halting' = "no"
        BY <2>3, <2>8 DEF RemoveStateDirs, From, Undone, Wiped, hist
      <3> QED
        BY <2>4, <2>8, <3>1 DEF RemoveStateDirs, From, Undone, Wiped, ResetSteps
    <2>9. CASE UnmergeSysext(c)
      <3>1. Wiped' /\ halting' = "no"
        BY <2>3, <2>9 DEF UnmergeSysext, From, Undone, Wiped, hist
      <3> QED
        BY <2>4, <2>9, <3>1 DEF UnmergeSysext, From, Undone, Wiped, ResetSteps
    <2>10. CASE ResetReboots(c)
      <3>1. Wiped'
        BY <2>3, <2>10 DEF ResetReboots, From, k0s, Undone, Wiped, hist
      <3> QED
        BY <2>4, <2>10, <3>1 DEF ResetReboots, From
    <2> QED
      BY <1>2, <2>5, <2>6, <2>7, <2>8, <2>9, <2>10 DEF ResetStep
  <1>3. ASSUME NEW c \in Callers, BootstrapStep(c) PROVE Undisturbed'
    <2>1. "company" \notin missed /\ pc[c] \in BootSteps \ {"ok"}
      BY <1>3 DEF BootstrapStep, K0sSysextLocation, K0sMerged, MergeSysext, StartController,
                  LocalAPIClient, FetchNodes, Tick, Deadline, From, hist, BootSteps
    <2> QED
      BY <2>1 DEF Calm, InReset, BootSteps, ResetSteps
  <1>4. CASE FoundCluster
    <2>1. missed' = missed /\ unit = "active" /\ UNCHANGED <<pc, unit, enabled, halting>>
      BY <1>4 DEF FoundCluster, hist
    <2> QED
      BY <2>1 DEF Calm, InReset, Undone, Wiped
  <1>5. CASE ApiUp \/ BecomeReady \/ RecordLapses \/ UNCHANGED vars
    <2>1. UNCHANGED <<pc, unit, enabled, admin, halting, missed>>
      BY <1>5 DEF ApiUp, BecomeReady, RecordLapses, vars, k0s, hist
    <2> QED
      BY <2>1 DEF Calm, InReset, Undone, Wiped
  <1>6. CASE K0sFails
    <2>1. unit = "active" /\ UNCHANGED <<pc, enabled, admin, halting, missed>>
      BY <1>6 DEF K0sFails, hist
    <2> QED
      BY <2>1 DEF Calm, InReset, Undone, Wiped
  <1>7. ASSUME NEW c \in Callers, CallFails(c) PROVE Undisturbed'
    <2>1. "company" \notin missed /\ pc[c] \in {"merge", "start", "remove", "reboot"} /\ Goto(c, "idle")
      BY <1>7 DEF CallFails, hist
    <2>2. pc[c] \in {"remove", "reboot"} /\ InReset(c)
      BY <2>1 DEF Calm, InReset, ResetSteps
    <2>3. UNCHANGED <<unit, enabled, admin, halting, missed>>
      BY <1>7, <2>2 DEF CallFails, hist
    <2>4. pc'[c] = "idle" /\ \A d \in Callers : d # c => pc'[d] = pc[d]
      BY <2>1 DEF Goto, TypeOK
    <2>5. \A d \in Callers : ~InReset(d)' /\ Calm(d)'
      BY <2>1, <2>2, <2>4 DEF Calm, InReset, ResetSteps
    <2> QED
      BY <2>1, <2>2, <2>3, <2>5
  <1>8. ASSUME NEW c \in Callers,
               \/ Bootstrap(c)
               \/ \E action \in {"start", "stop", "restart"} : ServiceAction(c, action)
               \/ Reboot(c, "reboot") \/ Reboot(c, "poweroff")
        PROVE  FALSE
    BY <1>8 DEF Bootstrap, ServiceAction, Reboot, Company
  <1>9. ~Boot
    BY DEF Boot, Company
  <1> QED
    BY <1>1, <1>2, <1>3, <1>4, <1>5, <1>6, <1>7, <1>8, <1>9 DEF Next, Shutdown

\* lifecycle.go:71-92: after a Reset without company the node boots without a cluster,
\* unless the stop failed, and without a k0s that starts, unless the disable did.
THEOREM ResetCorrect == Spec => ResetIsClean
  <1>1. Init => Undisturbed
    BY DEF Init, Undisturbed
  <1>2. Undisturbed /\ [Next]_vars =>
          [halting = "reboot" /\ halting' = "no" /\ "company" \notin missed =>
             /\ "stop" \notin missed => admin' = 0
             /\ "disable" \notin missed => ~enabled' /\ unit' = "inactive"]_vars
    <2> SUFFICES ASSUME Undisturbed, Next, halting = "reboot", halting' = "no", "company" \notin missed
                 PROVE  /\ "stop" \notin missed => admin' = 0
                        /\ "disable" \notin missed => ~enabled' /\ unit' = "inactive"
      OBVIOUS
    <2>1. Boot
      BY DEF Next, Bootstrap, BootstrapStep, K0sSysextLocation, K0sMerged, MergeSysext,
             StartController, LocalAPIClient, FetchNodes, Tick, Deadline, Reset, ResetStep,
             StopUnit, DisableUnit, K0sReset, RemoveStateDirs, UnmergeSysext, ResetReboots,
             ServiceAction, Reboot, Shutdown, CallFails, FoundCluster, ApiUp, BecomeReady,
             RecordLapses, K0sFails
    <2> QED
      BY <2>1 DEF Boot, Undisturbed, Wiped
  <1> QED
    BY <1>1, <1>2, TypeCorrect, UndisturbedNext, PTL DEF Spec, ResetIsClean
=============================================================================
