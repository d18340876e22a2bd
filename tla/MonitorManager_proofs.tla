------------------------ MODULE MonitorManager_proofs ------------------------
(***************************************************************************)
(* Theorems about MonitorManager for every set of monitors, every division *)
(* into discovery keys and every number of steps.                          *)
(***************************************************************************)
EXTENDS MonitorManager, FiniteSetTheorems, TLAPS

-----------------------------------------------------------------------------
(* The parts of the inductive invariants *)

\* Every goroutine is the one its slot's entry stands for.
Managed == \A s \in Slot, i \in Ids : Alive(s, i) => running[s].id = i

\* Sync's list lives in Sync only.
ListIsLocal == pc # "reconcile" => Listed = {}

\* No revision the worker knows of is ahead of the setting.
RevisionsPast == /\ runtime.revision <= maintenance.revision
                 /\ stamp <= maintenance.revision

\* In maintenance only administrators' monitors are active.
MembersPaused ==
    maintenance.on => \A m \in Monitor : status[m] = "active" => m \in Admins

\* Once "active" is shown, neither a goroutine nor a list that a Sync still
\* works from concerns a member's monitor.
Drained ==
    MaintenanceStatus = "active" =>
        /\ Listed \subseteq Admins
        /\ \A s \in Slot, i \in Ids : Alive(s, i) => Serves(s, i) \subseteq Admins

TaskInv  == TypeOK /\ Managed
DrainInv == TaskInv /\ ListIsLocal /\ RevisionsPast /\ MembersPaused /\ Drained

-----------------------------------------------------------------------------
(* What the helpers return *)

\* An empty slot, an absent goroutine and the empty list have their types.
LEMMA EmptyTypes == /\ Vacant \in Entry /\ Vacant.id = 0
                    /\ Done \in Task /\ Done.phase = "done"
                    /\ Absent \in Nat /\ NoRevision \in Nat
  BY DEF Vacant, Entry, Configs, Ids, Done, Task, Absent, NoRevision

\* There are finitely many slots, so their number is a natural number, and it
\* is 0 only when there are none (RuntimeCounts).
LEMMA SlotsCounted ==
    ASSUME NEW S \in SUBSET Slot
    PROVE  Cardinality(S) \in Nat /\ (Cardinality(S) = 0 => S = {})
  <1>1. IsFiniteSet(Slot)
    BY FS_Union, ManagerAssumption DEF ManagerAssumption, Slot
  <1>2. IsFiniteSet(S)
    BY <1>1, FS_Subset
  <1> QED BY <1>2, FS_CardinalityType, FS_EmptySet

\* A new process starts with no tasks of any kind.
LEMMA NewProcessTypes ==
    ASSUME NewProcess
    PROVE  /\ seen' \in {Unread, "on", "off"} /\ listing' \in [Monitor -> Nat]
           /\ stamp' \in Nat
           /\ running' \in [Slot -> Entry] /\ scheduledPaused' \subseteq Monitor
           /\ synced' \in BOOLEAN /\ maintenanceOn' \in BOOLEAN
           /\ task' \in [Slot -> [Ids -> Task]]
           /\ \A s \in Slot, i \in Ids : ~Alive(s, i)'
           /\ Listed' = {}
  BY EmptyTypes DEF NewProcess, Forgotten, Alive, Listed

\* What a slot should run is a configuration over the listed monitors
\* (BuildDiscoverySpecsWithPolicy).
LEMMA WantedType ==
    ASSUME TypeOK, NEW s \in Slot
    PROVE  /\ Wanted(s) \in Configs
           /\ \A p \in Wanted(s) : p[1] \in Listed
  <1>1. \A m \in Listed : m \in Monitor /\ listing[m] \in Nat
    BY DEF TypeOK, Listed
  <1>2. Due \subseteq Listed
    BY DEF Due
  <1>3. \A p \in Wanted(s) : \E m \in Listed : p = <<m, listing[m]>>
    BY <1>2 DEF Wanted
  <1> QED BY <1>1, <1>3 DEF Configs

\* Reaping keeps an entry or empties the slot.
LEMMA ReapedType ==
    ASSUME TypeOK, NEW s \in Slot
    PROVE  Reaped(s) \in Entry
  BY EmptyTypes DEF TypeOK, Reaped

\* A reaped entry that is not vacant is the old one, and its goroutine lives.
LEMMA ReapedAlive ==
    ASSUME NEW s \in Slot, Reaped(s) # Vacant
    PROVE  Reaped(s) = running[s] /\ Alive(s, running[s].id)
  BY DEF Reaped

\* No goroutine is left in a slot that reaping finds vacant.
LEMMA VacantIsQuiet ==
    ASSUME TaskInv, NEW s \in Slot, Reaped(s) = Vacant
    PROVE  \A i \in Ids : ~Alive(s, i)
  <1> SUFFICES ASSUME NEW i \in Ids, Alive(s, i) PROVE FALSE
    OBVIOUS
  <1>1. running[s].id = i
    BY DEF TaskInv, Managed
  <1>2. running[s] # Vacant
    BY <1>1, EmptyTypes DEF Ids
  <1> QED BY <1>1, <1>2 DEF Reaped

\* The identity a started task gets.
LEMMA FreshIdType ==
    ASSUME TaskInv, NEW s \in Slot, Starts(s)
    PROVE  FreshId(s) \in Ids
  <1>1. 1 \in Ids /\ ~Alive(s, 1)
    BY VacantIsQuiet DEF Starts, Ids
  <1> QED BY <1>1 DEF FreshId

\* A reconciliation keeps the types of the tasks and their entries.
LEMMA ReconcileTypes ==
    ASSUME TaskInv, SyncReconciles
    PROVE  running' \in [Slot -> Entry] /\ task' \in [Slot -> [Ids -> Task]]
  <1> USE DEF TaskInv
  <1>1. ASSUME NEW s \in Slot PROVE NextRunning(s) \in Entry
    <2>1. CASE Starts(s)
      <3>1. FreshId(s) \in Ids /\ Wanted(s) \in Configs
        BY <2>1, FreshIdType, WantedType
      <3> QED BY <2>1, <3>1 DEF NextRunning, Entry
    <2>2. CASE ~Starts(s)
      <3>1. Reaped(s) \in Entry
        BY ReapedType
      <3>2. [Reaped(s) EXCEPT !.stopping = TRUE] \in Entry
        BY <3>1 DEF Entry
      <3> QED BY <2>2, <3>1, <3>2 DEF NextRunning
    <2> QED BY <2>1, <2>2
  <1>2. ASSUME NEW s \in Slot, NEW i \in Ids PROVE NextTask(s, i) \in Task
    <2>1. task[s][i] \in Task
      BY DEF TypeOK
    <2>2. [task[s][i] EXCEPT !.cancelled = TRUE] \in Task
      BY <2>1 DEF Task
    <2>3. CASE Starts(s) /\ i = FreshId(s)
      <3>1. Wanted(s) \in Configs
        BY WantedType
      <3>2. (IF s \in Monitor THEN owed[s] ELSE {}) \in SUBSET Reasons
        BY DEF TypeOK
      <3>3. Resumes(s) \in BOOLEAN
        BY DEF Resumes
      <3> QED BY <2>3, <3>1, <3>2, <3>3 DEF NextTask, Task
    <2> QED BY <2>1, <2>2, <2>3 DEF NextTask
  <1> QED BY <1>1, <1>2 DEF SyncReconciles

\* A change of one goroutine keeps the types when it keeps the task's.
LEMMA OneTaskTypes ==
    ASSUME TaskInv, NEW s \in Slot, NEW i \in Ids, NEW t \in Task,
           task' = [task EXCEPT ![s][i] = t]
    PROVE  /\ task' \in [Slot -> [Ids -> Task]]
           /\ \A r \in Slot, j \in Ids :
                 task'[r][j] = IF r = s /\ j = i THEN t ELSE task[r][j]
  BY DEF TaskInv, TypeOK

\* Using up a bound keeps the counters.
LEMMA SpendType ==
    ASSUME TypeOK,
           \/ UNCHANGED spent
           \/ \E what \in Bounded : Spend(what)
    PROVE  spent' \in [Bounded -> Nat]
  <1>1. spent \in [Bounded -> Nat]
    BY DEF TypeOK
  <1> QED BY <1>1 DEF Spend

-----------------------------------------------------------------------------
(* Type correctness and one goroutine per slot *)

\* Initially everything has its type and no goroutine lives.
LEMMA InitTaskInv == Init => TaskInv
  <1> SUFFICES ASSUME Init PROVE TaskInv
    OBVIOUS
  <1> USE EmptyTypes
  <1>1. /\ running \in [Slot -> Entry] /\ task \in [Slot -> [Ids -> Task]]
        /\ listing \in [Monitor -> Nat] /\ stamp \in Nat
    BY DEF Init
  <1>2. /\ maintenance \in [on : BOOLEAN, revision : Nat]
        /\ runtime \in [revision : Nat, tasks : Nat]
    BY DEF Init
  <1>3. status \in [Monitor -> {"active", "paused", "maintenance_paused", "error"}]
    BY DEF Init
  <1>4. /\ version \in [Monitor -> Nat] /\ quiet \in [Monitor -> {"no", "slow", "pause"}]
        /\ owed \in [Monitor -> SUBSET Reasons] /\ spent \in [Bounded -> Nat]
    BY DEF Init
  <1>5. TypeOK
    BY <1>1, <1>2, <1>3, <1>4 DEF Init, TypeOK
  <1>6. Managed
    BY DEF Init, Managed, Alive
  <1> QED BY <1>5, <1>6 DEF TaskInv

\* A step that leaves the tasks alone keeps the goroutines managed when it
\* changes no entry.
LEMMA SameTasks ==
    ASSUME TaskInv, UNCHANGED <<running, task>>
    PROVE  Managed'
  BY DEF TaskInv, Managed, Alive

\* What a goroutine does to itself keeps it managed.
LEMMA GoroutineStep ==
    ASSUME TaskInv, NEW s \in Slot, NEW i \in Ids, Alive(s, i), NEW t \in Task,
           task' = [task EXCEPT ![s][i] = t], UNCHANGED running
    PROVE  task' \in [Slot -> [Ids -> Task]] /\ Managed'
  <1>1. /\ task' \in [Slot -> [Ids -> Task]]
        /\ \A r \in Slot, j \in Ids :
              task'[r][j] = IF r = s /\ j = i THEN t ELSE task[r][j]
    BY OneTaskTypes
  <1>2. \A r \in Slot, j \in Ids : Alive(r, j)' => Alive(r, j)
    BY <1>1 DEF Alive
  <1> QED BY <1>1, <1>2 DEF TaskInv, Managed

\* Every step of members, the administrator, the clock, the worker and its
\* goroutines keeps the types and the goroutines managed.
LEMMA NextTaskInv == TaskInv /\ [Next]_vars => TaskInv'
  <1> SUFFICES ASSUME TaskInv, [Next]_vars PROVE TaskInv'
    OBVIOUS
  <1> USE DEF TaskInv
  <1> USE DEF dbVars, syncVars, managerVars, ghostVars
  <1>1. ASSUME NEW m \in Monitor, Activate(m) \/ Pause(m) PROVE TaskInv'
    <2>1. Managed' /\ spent' \in [Bounded -> Nat]
      BY <1>1, SameTasks, SpendType DEF Bounded, Activate, Pause
    <2>2. status' \in [Monitor -> {"active", "paused", "maintenance_paused", "error"}]
      BY <1>1 DEF Activate, Pause, TypeOK
    <2>3. owed' \in [Monitor -> SUBSET Reasons] /\ held' \subseteq Monitor
      BY <1>1 DEF Activate, Pause, TypeOK
    <2> QED BY <1>1, <2>1, <2>2, <2>3 DEF Activate, Pause, TypeOK
  <1>2. ASSUME NEW m \in Monitor, Edit(m) PROVE TaskInv'
    <2>1. Managed'
      BY <1>2, SameTasks DEF Edit
    <2> QED BY <1>2, <2>1 DEF Edit, TypeOK
  <1>3. ASSUME NEW m \in Monitor, QuietHoursTurn(m) PROVE TaskInv'
    <2>1. Managed' /\ spent' \in [Bounded -> Nat]
      BY <1>3, SameTasks, SpendType DEF Bounded, QuietHoursTurn
    <2> QED BY <1>3, <2>1 DEF QuietHoursTurn, TypeOK
  <1>4. CASE EnableMonitorMaintenance
    <2>1. Managed'
      BY <1>4, SameTasks DEF EnableMonitorMaintenance
    <2>2. maintenance' \in [on : BOOLEAN, revision : Nat]
      BY <1>4 DEF EnableMonitorMaintenance, SetMaintenance, TypeOK
    <2>3. status' \in [Monitor -> {"active", "paused", "maintenance_paused", "error"}]
      BY <1>4 DEF EnableMonitorMaintenance, TypeOK
    <2>4. held' \subseteq Monitor /\ owed' \in [Monitor -> SUBSET Reasons]
      BY <1>4 DEF EnableMonitorMaintenance, TypeOK
    <2> QED BY <1>4, <2>1, <2>2, <2>3, <2>4 DEF EnableMonitorMaintenance, TypeOK
  <1>4a. CASE UpdateMonitorMaintenance
    <2>1. Managed'
      BY <1>4a, SameTasks DEF UpdateMonitorMaintenance
    <2>2. maintenance' \in [on : BOOLEAN, revision : Nat]
      BY <1>4a DEF UpdateMonitorMaintenance, SetMaintenance, TypeOK
    <2> QED BY <1>4a, <2>1, <2>2 DEF UpdateMonitorMaintenance, TypeOK
  <1>4b. CASE DisableMonitorMaintenance
    <2>1. Managed'
      BY <1>4b, SameTasks DEF DisableMonitorMaintenance
    <2>2. maintenance' \in [on : BOOLEAN, revision : Nat]
      BY <1>4b DEF DisableMonitorMaintenance, SetMaintenance, TypeOK
    <2>3. status' \in [Monitor -> {"active", "paused", "maintenance_paused", "error"}]
      BY <1>4b DEF DisableMonitorMaintenance, TypeOK
    <2>4. owed' \in [Monitor -> SUBSET Reasons]
      BY <1>4b DEF DisableMonitorMaintenance, TypeOK, Reasons
    <2> QED BY <1>4b, <2>1, <2>2, <2>3, <2>4 DEF DisableMonitorMaintenance, TypeOK
  <1>5. CASE SyncReadsMaintenance
    <2>1. Managed' /\ spent' \in [Bounded -> Nat]
      BY <1>5, SameTasks, SpendType DEF Bounded, SyncReadsMaintenance
    <2> QED BY <1>5, <2>1 DEF SyncReadsMaintenance, TypeOK
  <1>6. CASE SyncListsMonitors
    <2>1. Managed' /\ spent' \in [Bounded -> Nat]
      BY <1>6, SameTasks, SpendType DEF Bounded, SyncListsMonitors
    <2>2. /\ status' \in [Monitor -> {"active", "paused", "maintenance_paused", "error"}]
          /\ owed' \in [Monitor -> SUBSET Reasons]
      BY <1>6 DEF SyncListsMonitors, TypeOK
    <2>3. /\ listing' \in [Monitor -> Nat] /\ seen' \in {Unread, "on", "off"}
          /\ pc' \in {"reconcile", "revision"}
      BY <1>6, EmptyTypes DEF SyncListsMonitors, Forgotten, TypeOK
    <2> QED BY <1>6, <2>1, <2>2, <2>3 DEF SyncListsMonitors, TypeOK
  <1>7. CASE SyncReconciles
    <2>1. running' \in [Slot -> Entry] /\ task' \in [Slot -> [Ids -> Task]]
      BY <1>7, ReconcileTypes
    <2>2. owed' \in [Monitor -> SUBSET Reasons]
      <3>1. \A m \in Monitor : NextOwed(m) \in SUBSET Reasons
        BY DEF NextOwed, TypeOK, Reasons
      <3> QED BY <1>7, <3>1 DEF SyncReconciles
    <2>3. listing' \in [Monitor -> Nat] /\ seen' = Unread
      BY <1>7, EmptyTypes DEF SyncReconciles, Forgotten
    <2>4. scheduledPaused' \subseteq Monitor /\ maintenanceOn' \in BOOLEAN
      BY <1>7 DEF SyncReconciles, Listed, TypeOK
    <2>5. ASSUME NEW s \in Slot, NEW i \in Ids, NextTask(s, i).phase # "done"
          PROVE  NextRunning(s).id = i
      <3>1. CASE Starts(s)
        <4>1. ~Alive(s, i)
          BY <3>1, VacantIsQuiet DEF Starts
        <4>2. ~Stops(s)
          BY <3>1 DEF Starts, Stops
        <4>3. i = FreshId(s)
          BY <2>5, <3>1, <4>1, <4>2 DEF NextTask, Alive
        <4> QED BY <3>1, <4>3 DEF NextRunning
      <3>2. CASE ~Starts(s)
        <4>1. task[s][i] \in Task
          BY DEF TypeOK
        <4>2. Alive(s, i)
          BY <2>5, <3>2, <4>1 DEF NextTask, Alive, Task
        <4>3. running[s].id = i /\ Reaped(s) = running[s]
          BY <4>2 DEF Managed, Reaped
        <4>4. running[s] \in Entry
          BY DEF TypeOK
        <4> QED BY <3>2, <4>3, <4>4 DEF NextRunning, Entry
      <3> QED BY <3>1, <3>2
    <2>6. Managed'
      BY <1>7, <2>5 DEF SyncReconciles, Managed, Alive
    <2> QED BY <1>7, <2>1, <2>2, <2>3, <2>4, <2>6 DEF SyncReconciles, TypeOK
  <1>8. CASE PublishReadsRevision
    <2>1. Managed' /\ spent' \in [Bounded -> Nat]
      BY <1>8, SameTasks, SpendType DEF Bounded, PublishReadsRevision
    <2>2. stamp' \in Nat
      BY <1>8, EmptyTypes DEF PublishReadsRevision, TypeOK
    <2> QED BY <1>8, <2>1, <2>2 DEF PublishReadsRevision, TypeOK
  <1>9. CASE PublishCounts
    <2>1. running' \in [Slot -> Entry]
      BY <1>9, ReapedType DEF PublishCounts
    <2>2. runtime' \in [revision : Nat, tasks : Nat]
      <3>1. Cardinality({s \in Slot : Reaped(s) # Vacant}) \in Nat
        BY SlotsCounted
      <3> QED BY <1>9, <3>1 DEF PublishCounts, TypeOK
    <2>3. Managed'
      <3>1. ASSUME NEW s \in Slot, NEW i \in Ids, Alive(s, i)
            PROVE  Reaped(s).id = i
        BY <3>1 DEF Managed, Reaped
      <3> QED BY <1>9, <3>1 DEF PublishCounts, Managed, Alive
    <2>4. spent' \in [Bounded -> Nat]
      BY <1>9, SpendType DEF Bounded, PublishCounts
    <2>5. stamp' \in Nat
      BY <1>9, EmptyTypes DEF PublishCounts
    <2> QED BY <1>9, <2>1, <2>2, <2>3, <2>4, <2>5 DEF PublishCounts, TypeOK
  <1>10. CASE Start \/ Crash
    <2>1. NewProcess
      BY <1>10 DEF Start, Crash
    <2>2. /\ seen' \in {Unread, "on", "off"} /\ listing' \in [Monitor -> Nat]
          /\ stamp' \in Nat
          /\ running' \in [Slot -> Entry] /\ scheduledPaused' \subseteq Monitor
          /\ synced' \in BOOLEAN /\ maintenanceOn' \in BOOLEAN
          /\ task' \in [Slot -> [Ids -> Task]]
          /\ Managed'
      BY <2>1, NewProcessTypes DEF Managed
    <2>3. owed' \in [Monitor -> SUBSET Reasons]
      BY <1>10 DEF Start, Crash, TypeOK, Reasons
    <2>4. spent' \in [Bounded -> Nat]
      BY <1>10, SpendType DEF Bounded, Start, Crash
    <2> QED BY <1>10, <2>2, <2>3, <2>4 DEF Start, Crash, TypeOK
  <1>11. CASE Shutdown
    <2>1. \A s \in Slot : [Reaped(s) EXCEPT !.stopping = TRUE] \in Entry
      BY ReapedType DEF Entry
    <2>2. running' \in [Slot -> Entry]
      BY <1>11, <2>1, EmptyTypes DEF Shutdown
    <2>3. ASSUME NEW s \in Slot, NEW i \in Ids
          PROVE  /\ task[s][i] \in Task
                 /\ [task[s][i] EXCEPT !.cancelled = TRUE] \in Task
      <3>1. task[s][i] \in Task
        BY DEF TypeOK
      <3> QED BY <3>1 DEF Task
    <2>4. task' \in [Slot -> [Ids -> Task]]
      BY <1>11, <2>3 DEF Shutdown
    <2>5. Managed'
      <3>1. ASSUME NEW s \in Slot, NEW i \in Ids, Alive(s, i)'
            PROVE  running'[s].id = i
        <4>1. Alive(s, i)
          BY <1>11, <3>1, <2>3 DEF Shutdown, Alive, Task
        <4>2. running[s].id = i /\ Reaped(s) = running[s]
          BY <4>1 DEF Managed, Reaped
        <4>3. running[s] # Vacant /\ running[s] \in Entry
          BY <4>2, EmptyTypes DEF TypeOK, Ids
        <4> QED BY <1>11, <4>2, <4>3 DEF Shutdown, Entry
      <3> QED BY <3>1 DEF Managed
    <2>6. spent' \in [Bounded -> Nat]
      BY <1>11, SpendType DEF Bounded, Shutdown
    <2> QED BY <1>11, <2>2, <2>4, <2>5, <2>6 DEF Shutdown, TypeOK
  <1>12. ASSUME NEW s \in Slot, NEW i \in Ids,
                TaskBegins(s, i) \/ TaskGivesUp(s, i) \/ TaskStops(s, i)
         PROVE  TaskInv'
    <2>1. task[s][i] \in Task /\ Alive(s, i)
      BY <1>12 DEF TypeOK, TaskBegins, TaskGivesUp, TaskStops, Alive
    <2>2. PICK t \in Task : task' = [task EXCEPT ![s][i] = t]
      <3>1. [task[s][i] EXCEPT !.phase = "watching"] \in Task
        BY <2>1 DEF Task
      <3>2. [task EXCEPT ![s][i].phase = "watching"] =
              [task EXCEPT ![s][i] = [task[s][i] EXCEPT !.phase = "watching"]]
        BY DEF TypeOK
      <3> QED BY <1>12, <3>1, <3>2, EmptyTypes DEF TaskBegins, TaskGivesUp, TaskStops
    <2>3. task' \in [Slot -> [Ids -> Task]] /\ Managed'
      BY <1>12, <2>1, <2>2, GoroutineStep DEF TaskBegins, TaskGivesUp, TaskStops, TaskOnly
    <2>4. spent' \in [Bounded -> Nat]
      BY <1>12, SpendType DEF Bounded, TaskBegins, TaskGivesUp, TaskStops
    <2> QED BY <1>12, <2>3, <2>4 DEF TaskBegins, TaskGivesUp, TaskStops, TaskOnly, TypeOK
  <1>13. ASSUME NEW m \in Monitor, NEW i \in Ids,
                TaskReadsRow(m, i) \/ TaskStopsMonitor(m, i) \/ TaskLeaves(m, i)
         PROVE  TaskInv'
    <2>1. m \in Slot
      BY DEF Slot
    <2>2. task[m][i] \in Task /\ Alive(m, i)
      BY <1>13, <2>1 DEF TypeOK, TaskReadsRow, TaskStopsMonitor, TaskLeaves, Alive
    <2>3. PICK t \in Task : task' = [task EXCEPT ![m][i] = t]
      <3>1. [task[m][i] EXCEPT !.phase = "leaving"] \in Task
        BY <2>2 DEF Task
      <3>2. [task EXCEPT ![m][i].phase = "leaving"] =
              [task EXCEPT ![m][i] = [task[m][i] EXCEPT !.phase = "leaving"]]
        BY DEF TypeOK
      <3> QED BY <1>13, <3>1, <3>2, EmptyTypes DEF TaskReadsRow, TaskStopsMonitor, TaskLeaves
    <2>4. task' \in [Slot -> [Ids -> Task]] /\ Managed'
      BY <1>13, <2>1, <2>2, <2>3, GoroutineStep
         DEF TaskReadsRow, TaskStopsMonitor, TaskLeaves, TaskOnly
    <2>5. spent' \in [Bounded -> Nat]
      BY <1>13, SpendType DEF Bounded, TaskReadsRow, TaskStopsMonitor, TaskLeaves
    <2>6. /\ status' \in [Monitor -> {"active", "paused", "maintenance_paused", "error"}]
          /\ owed' \in [Monitor -> SUBSET Reasons]
      BY <1>13 DEF TaskReadsRow, TaskStopsMonitor, TaskLeaves, TypeOK
    <2> QED BY <1>13, <2>4, <2>5, <2>6
            DEF TaskReadsRow, TaskStopsMonitor, TaskLeaves, TaskOnly, TypeOK
  <1>14. CASE UNCHANGED vars
    <2>1. Managed'
      BY <1>14, SameTasks DEF vars
    <2> QED BY <1>14, <2>1 DEF vars, TypeOK
  <1> QED BY <1>1, <1>2, <1>3, <1>4, <1>5, <1>6, <1>7, <1>8, <1>9, <1>10, <1>11,
             <1>12, <1>13, <1>14, <1>4a, <1>4b DEF Next, WorkerStep

\* Types and managed goroutines are invariants.
LEMMA TaskInvariant == Spec => []TaskInv
  <1>1. Init => TaskInv
    BY InitTaskInv
  <1>2. TaskInv /\ [Next]_vars => TaskInv'
    BY NextTaskInv
  <1> QED BY <1>1, <1>2, PTL DEF Spec

\* Every variable keeps to its domain.
THEOREM ManagerTypes == Spec => []TypeOK
  BY TaskInvariant, PTL DEF TaskInv

\* manager.go: a slot is started only after the goroutine it held has
\* returned, so no two goroutines ever serve one monitor or one key.
THEOREM OneTask == Spec => []OneTaskPerSlot
  <1>1. TaskInv => OneTaskPerSlot
    BY DEF TaskInv, Managed, OneTaskPerSlot
  <1> QED BY <1>1, TaskInvariant, PTL

-----------------------------------------------------------------------------
(* "active" means drained *)

\* What the administrator sees as "active" (getMonitorMaintenanceStatus).
LEMMA ActiveMeans ==
    MaintenanceStatus = "active" <=>
        /\ maintenance.on
        /\ runtime.revision = maintenance.revision
        /\ runtime.tasks = 0
  BY DEF MaintenanceStatus

\* A goroutine only ever goes on with the configuration it was started with.
LEMMA ServesLess ==
    ASSUME TaskInv, NEW s \in Slot, NEW i \in Ids, Alive(s, i), NEW t \in Task,
           t = Done \/ t.cfg = task[s][i].cfg,
           task' = [task EXCEPT ![s][i] = t],
           NEW r \in Slot, NEW j \in Ids, Alive(r, j)'
    PROVE  Alive(r, j) /\ Serves(r, j)' = Serves(r, j)
  <1>1. task'[r][j] = IF r = s /\ j = i THEN t ELSE task[r][j]
    BY OneTaskTypes
  <1>2. CASE r = s /\ j = i
    BY <1>1, <1>2, EmptyTypes DEF Alive, Serves
  <1>3. CASE ~(r = s /\ j = i)
    BY <1>1, <1>3 DEF Alive, Serves
  <1> QED BY <1>2, <1>3

\* Initially no maintenance is on.
LEMMA InitDrainInv == Init => DrainInv
  <1> SUFFICES ASSUME Init PROVE DrainInv
    OBVIOUS
  <1>1. TaskInv
    BY InitTaskInv
  <1>2. ListIsLocal
    BY DEF Init, ListIsLocal, Listed
  <1>3. RevisionsPast /\ MembersPaused
    BY DEF Init, RevisionsPast, MembersPaused, NoRevision
  <1>4. Drained
    BY ActiveMeans DEF Init, Drained
  <1> QED BY <1>1, <1>2, <1>3, <1>4 DEF DrainInv

\* A Sync's list is gone when it returns.
LEMMA NextListIsLocal == DrainInv /\ [Next]_vars => ListIsLocal'
  <1> SUFFICES ASSUME DrainInv, [Next]_vars PROVE ListIsLocal'
    OBVIOUS
  <1> USE DEF DrainInv, ListIsLocal, Listed
  <1>1. CASE SyncReconciles \/ SyncListsMonitors \/ Start \/ Crash
    BY <1>1 DEF SyncReconciles, SyncListsMonitors, Start, Crash, NewProcess, Forgotten
  <1>2. CASE \/ SyncReadsMaintenance \/ PublishReadsRevision \/ PublishCounts
             \/ Shutdown
    BY <1>2 DEF SyncReadsMaintenance, PublishReadsRevision, PublishCounts, Shutdown
  <1>3. CASE UNCHANGED syncVars
    BY <1>3 DEF syncVars
  <1>4. CASE \/ \E m \in Monitor : Activate(m) \/ Pause(m) \/ Edit(m) \/ QuietHoursTurn(m)
             \/ EnableMonitorMaintenance \/ UpdateMonitorMaintenance
             \/ DisableMonitorMaintenance
    BY <1>4, <1>3 DEF Activate, Pause, Edit, QuietHoursTurn,
       EnableMonitorMaintenance, UpdateMonitorMaintenance, DisableMonitorMaintenance
  <1>5. CASE \/ \E s \in Slot, i \in Ids :
                  TaskBegins(s, i) \/ TaskGivesUp(s, i) \/ TaskStops(s, i)
             \/ \E m \in Monitor, i \in Ids :
                  TaskReadsRow(m, i) \/ TaskStopsMonitor(m, i) \/ TaskLeaves(m, i)
    BY <1>5, <1>3 DEF TaskBegins, TaskGivesUp, TaskStops, TaskReadsRow,
       TaskStopsMonitor, TaskLeaves, TaskOnly
  <1>6. CASE UNCHANGED vars
    BY <1>6, <1>3 DEF vars
  <1> QED BY <1>1, <1>2, <1>4, <1>5, <1>6 DEF Next, WorkerStep

\* Revisions only grow, and the worker only knows those it has read.
LEMMA NextRevisionsPast == DrainInv /\ [Next]_vars => RevisionsPast'
  <1> SUFFICES ASSUME DrainInv, [Next]_vars PROVE RevisionsPast'
    OBVIOUS
  <1> USE DEF dbVars, syncVars
  <1>0. /\ maintenance.revision \in Nat /\ runtime.revision \in Nat
        /\ stamp \in Nat /\ RevisionsPast
    BY DEF DrainInv, TaskInv, TypeOK
  <1> USE <1>0 DEF RevisionsPast
  <1>1. CASE \/ EnableMonitorMaintenance \/ UpdateMonitorMaintenance
             \/ DisableMonitorMaintenance
    <2>1. maintenance'.revision = maintenance.revision + 1
      BY <1>1 DEF EnableMonitorMaintenance, UpdateMonitorMaintenance,
         DisableMonitorMaintenance, SetMaintenance
    <2>2. UNCHANGED <<runtime, stamp>>
      BY <1>1 DEF EnableMonitorMaintenance, UpdateMonitorMaintenance,
         DisableMonitorMaintenance
    <2> QED BY <2>1, <2>2
  <1>2. CASE PublishReadsRevision
    BY <1>2 DEF PublishReadsRevision, NoRevision
  <1>3. CASE PublishCounts
    BY <1>3 DEF PublishCounts, NoRevision
  <1>4. CASE Start \/ Crash
    BY <1>4 DEF Start, Crash, NewProcess, NoRevision
  <1>5. CASE UNCHANGED <<maintenance, runtime, stamp>>
    BY <1>5
  <1>6. CASE SyncReadsMaintenance \/ SyncListsMonitors \/ SyncReconciles \/ Shutdown
    BY <1>6 DEF SyncReadsMaintenance, SyncListsMonitors, SyncReconciles, Shutdown
  <1>7. CASE \E m \in Monitor : Activate(m) \/ Pause(m) \/ Edit(m) \/ QuietHoursTurn(m)
    BY <1>7, <1>5 DEF Activate, Pause, Edit, QuietHoursTurn
  <1>8. CASE \/ \E s \in Slot, i \in Ids :
                  TaskBegins(s, i) \/ TaskGivesUp(s, i) \/ TaskStops(s, i)
             \/ \E m \in Monitor, i \in Ids :
                  TaskReadsRow(m, i) \/ TaskStopsMonitor(m, i) \/ TaskLeaves(m, i)
    BY <1>8, <1>5 DEF TaskBegins, TaskGivesUp, TaskStops, TaskReadsRow,
       TaskStopsMonitor, TaskLeaves, TaskOnly
  <1>9. CASE UNCHANGED vars
    BY <1>9, <1>5 DEF vars
  <1> QED BY <1>1, <1>2, <1>3, <1>4, <1>6, <1>7, <1>8, <1>9 DEF Next, WorkerStep

\* Nobody but an administrator activates a monitor in maintenance.
LEMMA NextMembersPaused == DrainInv /\ [Next]_vars => MembersPaused'
  <1> SUFFICES ASSUME DrainInv, [Next]_vars PROVE MembersPaused'
    OBVIOUS
  <1> USE DEF dbVars
  <1>0. /\ status \in [Monitor -> {"active", "paused", "maintenance_paused", "error"}]
        /\ maintenance \in [on : BOOLEAN, revision : Nat]
        /\ MembersPaused
    BY DEF DrainInv, TaskInv, TypeOK
  <1> USE <1>0 DEF MembersPaused
  <1>1. ASSUME NEW m \in Monitor, Activate(m) \/ Pause(m) PROVE MembersPaused'
    BY <1>1 DEF Activate, Pause, CanActivate
  <1>2. CASE EnableMonitorMaintenance
    BY <1>2 DEF EnableMonitorMaintenance
  <1>3. CASE DisableMonitorMaintenance
    BY <1>3 DEF DisableMonitorMaintenance, SetMaintenance
  <1>4. CASE UpdateMonitorMaintenance
    BY <1>4 DEF UpdateMonitorMaintenance
  <1>5. CASE SyncListsMonitors
    BY <1>5 DEF SyncListsMonitors
  <1>6. ASSUME NEW m \in Monitor, NEW i \in Ids, TaskStopsMonitor(m, i)
        PROVE  MembersPaused'
    BY <1>6 DEF TaskStopsMonitor, TaskOnly
  <1>7. CASE UNCHANGED <<status, maintenance>>
    BY <1>7
  <1>8. CASE \/ SyncReadsMaintenance \/ SyncReconciles \/ PublishReadsRevision
             \/ PublishCounts \/ Start \/ Crash \/ Shutdown
    BY <1>8 DEF SyncReadsMaintenance, SyncReconciles, PublishReadsRevision,
       PublishCounts, Start, Crash, Shutdown
  <1>9. CASE \E m \in Monitor : Edit(m) \/ QuietHoursTurn(m)
    BY <1>9, <1>7 DEF Edit, QuietHoursTurn
  <1>10. CASE \/ \E s \in Slot, i \in Ids :
                  TaskBegins(s, i) \/ TaskGivesUp(s, i) \/ TaskStops(s, i)
              \/ \E m \in Monitor, i \in Ids : TaskReadsRow(m, i) \/ TaskLeaves(m, i)
    BY <1>10, <1>7 DEF TaskBegins, TaskGivesUp, TaskStops, TaskReadsRow,
       TaskLeaves, TaskOnly
  <1>11. CASE UNCHANGED vars
    BY <1>11, <1>7 DEF vars
  <1> QED BY <1>1, <1>2, <1>3, <1>4, <1>5, <1>6, <1>8, <1>9, <1>10, <1>11
          DEF Next, WorkerStep

\* A step that starts no task, takes up no list and publishes nothing keeps
\* what "active" says.
LEMMA DrainedFrame ==
    ASSUME DrainInv, UNCHANGED <<maintenance, runtime>>,
           Listed' \subseteq Listed,
           \A s \in Slot, i \in Ids :
               Alive(s, i)' => Alive(s, i) /\ Serves(s, i)' = Serves(s, i)
    PROVE  Drained'
  <1>1. MaintenanceStatus' = MaintenanceStatus
    BY DEF MaintenanceStatus
  <1> QED BY <1>1 DEF DrainInv, Drained

\* A goroutine's own step is such a step.
LEMMA DrainedTaskStep ==
    ASSUME DrainInv, NEW s \in Slot, NEW i \in Ids,
           \/ TaskBegins(s, i) \/ TaskGivesUp(s, i) \/ TaskStops(s, i)
           \/ /\ s \in Monitor
              /\ TaskReadsRow(s, i) \/ TaskStopsMonitor(s, i) \/ TaskLeaves(s, i)
    PROVE  Drained'
  <1> USE DEF DrainInv
  <1>1. UNCHANGED <<maintenance, runtime, listing>>
    BY DEF TaskBegins, TaskGivesUp, TaskStops, TaskReadsRow, TaskStopsMonitor,
       TaskLeaves, TaskOnly, syncVars
  <1>2. Alive(s, i) /\ task[s][i] \in Task
    BY DEF TaskInv, TypeOK, TaskBegins, TaskGivesUp, TaskStops, TaskReadsRow,
       TaskStopsMonitor, TaskLeaves, Alive
  <1>3. PICK t \in Task : /\ task' = [task EXCEPT ![s][i] = t]
                          /\ t = Done \/ t.cfg = task[s][i].cfg
    <2>1. ASSUME NEW p \in {"watching", "leaving"},
                 task' = [task EXCEPT ![s][i].phase = p]
          PROVE  \E t \in Task : /\ task' = [task EXCEPT ![s][i] = t]
                                 /\ t = Done \/ t.cfg = task[s][i].cfg
      <3> DEFINE t == [task[s][i] EXCEPT !.phase = p]
      <3>1. t \in Task /\ t.cfg = task[s][i].cfg
        BY <1>2 DEF Task
      <3>2. task' = [task EXCEPT ![s][i] = t]
        BY <2>1
      <3> QED BY <3>1, <3>2
    <2>2. CASE task' = [task EXCEPT ![s][i] = Done]
      BY <2>2, EmptyTypes
    <2>3. \/ task' = [task EXCEPT ![s][i] = Done]
          \/ \E p \in {"watching", "leaving"} : task' = [task EXCEPT ![s][i].phase = p]
      BY DEF TaskBegins, TaskGivesUp, TaskStops, TaskReadsRow, TaskStopsMonitor, TaskLeaves
    <2> QED BY <2>1, <2>2, <2>3
  <1>4. \A r \in Slot, j \in Ids :
           Alive(r, j)' => Alive(r, j) /\ Serves(r, j)' = Serves(r, j)
    BY <1>2, <1>3, ServesLess
  <1>5. Listed' = Listed
    BY <1>1 DEF Listed
  <1> QED BY <1>1, <1>4, <1>5, DrainedFrame

\* Every step keeps what "active" says.
LEMMA NextDrained == DrainInv /\ [Next]_vars => Drained'
  <1> SUFFICES ASSUME DrainInv, [Next]_vars PROVE Drained'
    OBVIOUS
  <1> USE DEF DrainInv
  <1>1. ASSUME UNCHANGED <<maintenance, runtime, listing, task>> PROVE Drained'
    <2>1. Listed' = Listed
      BY <1>1 DEF Listed
    <2>2. \A s \in Slot, i \in Ids : Alive(s, i)' = Alive(s, i) /\ Serves(s, i)' = Serves(s, i)
      BY <1>1 DEF Alive, Serves
    <2> QED BY <1>1, <2>1, <2>2, DrainedFrame
  <1>2. CASE \/ \E m \in Monitor : Activate(m) \/ Pause(m) \/ Edit(m) \/ QuietHoursTurn(m)
             \/ SyncReadsMaintenance \/ PublishReadsRevision \/ UNCHANGED vars
    BY <1>1, <1>2 DEF Activate, Pause, Edit, QuietHoursTurn, SyncReadsMaintenance,
       PublishReadsRevision, vars, dbVars, syncVars
  <1>3. CASE \/ EnableMonitorMaintenance \/ UpdateMonitorMaintenance
             \/ DisableMonitorMaintenance
    <2>1. maintenance'.revision = maintenance.revision + 1 /\ UNCHANGED runtime
      BY <1>3 DEF EnableMonitorMaintenance, UpdateMonitorMaintenance,
         DisableMonitorMaintenance, SetMaintenance
    <2>2. runtime.revision <= maintenance.revision
          /\ runtime.revision \in Nat /\ maintenance.revision \in Nat
      BY DEF RevisionsPast, TaskInv, TypeOK
    <2>3. MaintenanceStatus' # "active"
      BY <2>1, <2>2 DEF MaintenanceStatus
    <2> QED BY <2>3 DEF Drained
  <1>4. CASE SyncListsMonitors
    <2>1. UNCHANGED <<maintenance, runtime, task>>
      BY <1>4 DEF SyncListsMonitors
    <2>2. \A s \in Slot, i \in Ids : Alive(s, i)' = Alive(s, i) /\ Serves(s, i)' = Serves(s, i)
      BY <2>1 DEF Alive, Serves
    <2>3. CASE maintenance.on
      <3>1. \A m \in Monitor : status'[m] = "active" => m \in Admins
        BY <1>4, <2>3 DEF SyncListsMonitors, MembersPaused, TaskInv, TypeOK
      <3>2. Listed' \subseteq Admins
        BY <1>4, <3>1 DEF SyncListsMonitors, Listed, ActiveRows, Forgotten
      <3>3. MaintenanceStatus' = MaintenanceStatus
        BY <2>1 DEF MaintenanceStatus
      <3> QED BY <2>2, <3>2, <3>3 DEF Drained
    <2>4. CASE ~maintenance.on
      BY <2>1, <2>4 DEF Drained, MaintenanceStatus
    <2> QED BY <2>3, <2>4
  <1>5. CASE SyncReconciles
    <2>1. UNCHANGED <<maintenance, runtime>> /\ Listed' = {}
      BY <1>5 DEF SyncReconciles, dbVars, Forgotten, Listed
    <2>2. MaintenanceStatus' = MaintenanceStatus
      BY <2>1 DEF MaintenanceStatus
    <2>3. ASSUME MaintenanceStatus = "active", NEW s \in Slot, NEW i \in Ids, Alive(s, i)'
          PROVE  Serves(s, i)' \subseteq Admins
      <3>1. task'[s][i] = NextTask(s, i) /\ task[s][i] \in Task
        BY <1>5 DEF SyncReconciles, TaskInv, TypeOK
      <3>2. CASE Starts(s) /\ i = FreshId(s)
        <4>1. task'[s][i].cfg = Wanted(s)
          BY <3>1, <3>2 DEF NextTask
        <4>2. \A p \in Wanted(s) : p[1] \in Listed
          BY WantedType DEF TaskInv
        <4>3. Listed \subseteq Admins
          BY <2>3 DEF Drained
        <4> QED BY <4>1, <4>2, <4>3 DEF Serves
      <3>3. CASE ~(Starts(s) /\ i = FreshId(s))
        <4>1. task'[s][i].cfg = task[s][i].cfg /\ task'[s][i].phase = task[s][i].phase
          BY <3>1, <3>3 DEF NextTask, Task
        <4>2. Alive(s, i) /\ Serves(s, i)' = Serves(s, i)
          BY <2>3, <4>1 DEF Alive, Serves
        <4> QED BY <2>3, <4>2 DEF Drained
      <3> QED BY <3>2, <3>3
    <2> QED BY <2>1, <2>2, <2>3 DEF Drained
  <1>6. CASE PublishCounts
    <2>1. UNCHANGED <<maintenance, listing, task>>
      BY <1>6 DEF PublishCounts
    <2>2. Listed' = Listed
      BY <2>1 DEF Listed
    <2>3. \A s \in Slot, i \in Ids : Alive(s, i)' = Alive(s, i) /\ Serves(s, i)' = Serves(s, i)
      BY <2>1 DEF Alive, Serves
    <2>4. CASE UNCHANGED runtime
      BY <2>1, <2>2, <2>3, <2>4, DrainedFrame
    <2>5. CASE runtime'.tasks = Cardinality({s \in Slot : Reaped(s) # Vacant})
      <3> SUFFICES ASSUME MaintenanceStatus' = "active" PROVE Drained'
        BY DEF Drained
      <3>1. runtime'.tasks = 0
        BY DEF MaintenanceStatus
      <3>2. {s \in Slot : Reaped(s) # Vacant} = {}
        BY <2>5, <3>1, SlotsCounted
      <3>3. \A s \in Slot, i \in Ids : ~Alive(s, i)
        BY <3>2, VacantIsQuiet
      <3>4. Listed = {}
        BY <1>6 DEF PublishCounts, ListIsLocal
      <3> QED BY <2>2, <2>3, <3>3, <3>4 DEF Drained
    <2> QED BY <1>6, <2>4, <2>5 DEF PublishCounts
  <1>7. CASE Start \/ Crash
    BY <1>7, NewProcessTypes DEF Start, Crash, Drained
  <1>8. CASE Shutdown
    <2>1. UNCHANGED <<maintenance, runtime, listing>>
      BY <1>8 DEF Shutdown, dbVars
    <2>2. Listed' = Listed
      BY <2>1 DEF Listed
    <2>3. ASSUME NEW s \in Slot, NEW i \in Ids, Alive(s, i)'
          PROVE  Alive(s, i) /\ Serves(s, i)' = Serves(s, i)
      <3>1. task[s][i] \in Task
        BY DEF TaskInv, TypeOK
      <3>2. task'[s][i] = IF Alive(s, i) THEN [task[s][i] EXCEPT !.cancelled = TRUE]
                          ELSE task[s][i]
        BY <1>8 DEF Shutdown
      <3>3. task'[s][i].phase = task[s][i].phase /\ task'[s][i].cfg = task[s][i].cfg
        BY <3>1, <3>2 DEF Task
      <3> QED BY <2>3, <3>3 DEF Alive, Serves
    <2> QED BY <2>1, <2>2, <2>3, DrainedFrame
  <1>9. ASSUME NEW s \in Slot, NEW i \in Ids,
               TaskBegins(s, i) \/ TaskGivesUp(s, i) \/ TaskStops(s, i)
        PROVE  Drained'
    BY <1>9, DrainedTaskStep
  <1>10. ASSUME NEW m \in Monitor, NEW i \in Ids,
                TaskReadsRow(m, i) \/ TaskStopsMonitor(m, i) \/ TaskLeaves(m, i)
         PROVE  Drained'
    BY <1>10, DrainedTaskStep DEF Slot
  <1> QED BY <1>2, <1>3, <1>4, <1>5, <1>6, <1>7, <1>8, <1>9, <1>10 DEF Next, WorkerStep

\* getMonitorMaintenanceStatus: "active" is shown only when no goroutine works
\* for a member's monitor, however old the list a Sync works from, whoever
\* activates or edits monitors meanwhile, and across crashes of the worker.
THEOREM DrainConfirmed == Spec => []ConfirmedMeansDrained
  <1>1. Init => DrainInv
    BY InitDrainInv
  <1>2. DrainInv /\ [Next]_vars => DrainInv'
    <2>1. DrainInv /\ [Next]_vars => TaskInv'
      BY NextTaskInv DEF DrainInv
    <2> QED BY <2>1, NextListIsLocal, NextRevisionsPast, NextMembersPaused,
               NextDrained DEF DrainInv
  <1>3. DrainInv => ConfirmedMeansDrained
    BY DEF DrainInv, Drained, ConfirmedMeansDrained
  <1> QED BY <1>1, <1>2, <1>3, PTL DEF Spec

-----------------------------------------------------------------------------
(* A restart of the worker loses nothing *)

\* A monitor that is owed a continuation since the process started is still
\* active, has had no task, and is known to Sync: as a monitor nobody has
\* reconciled yet, or as one its quiet hours hold back.
RestartOwed ==
    \A m \in Monitor : "restart" \in owed[m] =>
        /\ status[m] = "active"
        /\ pc = "reconcile" => listing[m] # Absent
        /\ pc # "down" => /\ running[m] = Vacant
                          /\ ~synced \/ m \in scheduledPaused

\* Versions are never taken for an absent row.
Versioned == \A m \in Monitor : version[m] # Absent

\* A living goroutine that owes a continuation was told to resume.
Resumed ==
    \A m \in Monitor, i \in Ids :
        Alive(m, i) /\ "restart" \in task[m][i].owed => task[m][i].resume

Whole      == TaskInv /\ Versioned /\ RestartOwed /\ Resumed
RestartInv == TaskInv /\ Versioned /\ (spent.partial = 0 => Whole)

\* Initially nothing is owed.
LEMMA InitRestartInv == Init => RestartInv
  BY InitTaskInv DEF Init, RestartInv, Whole, Versioned, RestartOwed, Resumed,
     Alive, Done, Absent, Slot

\* Edits count up.
LEMMA NextVersioned == RestartInv /\ [Next]_vars => Versioned'
  <1> SUFFICES ASSUME RestartInv, [Next]_vars PROVE Versioned'
    OBVIOUS
  <1> USE DEF dbVars
  <1>1. version \in [Monitor -> Nat] /\ Versioned
    BY DEF RestartInv, TaskInv, TypeOK
  <1>2. ASSUME NEW m \in Monitor, Edit(m) PROVE Versioned'
    BY <1>1, <1>2 DEF Edit, Versioned, Absent
  <1>3. CASE UNCHANGED version
    BY <1>1, <1>3 DEF Versioned
  <1>4. CASE \/ \E m \in Monitor : Activate(m) \/ Pause(m) \/ QuietHoursTurn(m)
             \/ EnableMonitorMaintenance \/ UpdateMonitorMaintenance
             \/ DisableMonitorMaintenance \/ UNCHANGED vars
    BY <1>3, <1>4 DEF Activate, Pause, QuietHoursTurn, EnableMonitorMaintenance,
       UpdateMonitorMaintenance, DisableMonitorMaintenance, vars
  <1>5. CASE WorkerStep \/ Shutdown \/ Crash
    BY <1>3, <1>5 DEF WorkerStep, SyncReadsMaintenance, SyncListsMonitors,
       SyncReconciles, PublishReadsRevision, PublishCounts, Start, Shutdown, Crash
  <1>6. CASE \/ \E s \in Slot, i \in Ids :
                  TaskBegins(s, i) \/ TaskGivesUp(s, i) \/ TaskStops(s, i)
             \/ \E m \in Monitor, i \in Ids :
                  TaskReadsRow(m, i) \/ TaskStopsMonitor(m, i) \/ TaskLeaves(m, i)
    BY <1>3, <1>6 DEF TaskBegins, TaskGivesUp, TaskStops, TaskReadsRow,
       TaskStopsMonitor, TaskLeaves, TaskOnly
  <1> QED BY <1>2, <1>4, <1>5, <1>6 DEF Next

\* What is owed since the start stays owed until the first task takes it over.
LEMMA NextRestartOwed ==
    ASSUME spent'.partial = 0, Whole, [Next]_vars
    PROVE  RestartOwed'
  <1> USE DEF dbVars, syncVars, managerVars, ghostVars
  <1>0. /\ status \in [Monitor -> {"active", "paused", "maintenance_paused", "error"}]
        /\ owed \in [Monitor -> SUBSET Reasons] /\ spent \in [Bounded -> Nat]
        /\ RestartOwed /\ Versioned
        /\ \A m \in Monitor : m \in Slot
    BY DEF Whole, TaskInv, TypeOK, Slot
  <1>1. ASSUME NEW m \in Monitor, Activate(m) \/ Pause(m) PROVE RestartOwed'
    BY <1>0, <1>1 DEF Activate, Pause, RestartOwed
  <1>2. CASE EnableMonitorMaintenance
    BY <1>0, <1>2 DEF EnableMonitorMaintenance, RestartOwed
  <1>3. CASE DisableMonitorMaintenance
    BY <1>0, <1>3 DEF DisableMonitorMaintenance, RestartOwed
  <1>4. CASE SyncReadsMaintenance
    BY <1>0, <1>4 DEF SyncReadsMaintenance, RestartOwed
  <1>5. CASE SyncListsMonitors
    <2>1. ~Spend("partial")
      BY <1>0 DEF Bounded, Spend
    <2>2. \A m \in Monitor : "restart" \in owed'[m] =>
             "restart" \in owed[m] /\ status'[m] = "active"
      BY <1>0, <1>5 DEF SyncListsMonitors, RestartOwed
    <2>3. pc' = "reconcile" => \A m \in Monitor : status'[m] = "active" => listing'[m] # Absent
      BY <1>0, <1>5, <2>1 DEF SyncListsMonitors, ActiveRows, Versioned
    <2>4. pc # "down" /\ UNCHANGED managerVars
      BY <1>5 DEF SyncListsMonitors
    <2> QED BY <1>0, <2>2, <2>3, <2>4 DEF RestartOwed
  <1>6. CASE SyncReconciles
    <2> SUFFICES ASSUME NEW m \in Monitor, "restart" \in owed'[m]
                 PROVE  /\ status'[m] = "active"
                        /\ pc' = "reconcile" => listing'[m] # Absent
                        /\ pc' # "down" => /\ running'[m] = Vacant
                                           /\ ~synced' \/ m \in scheduledPaused'
      BY DEF RestartOwed
    <2>1. owed'[m] = NextOwed(m) /\ running'[m] = NextRunning(m)
          /\ pc = "reconcile" /\ pc' = "revision" /\ UNCHANGED status
          /\ scheduledPaused' = Listed \ Due
      BY <1>0, <1>6 DEF SyncReconciles
    <2>2. "restart" \in owed[m] /\ ~Starts(m)
      BY <2>1 DEF NextOwed
    <2>3. status[m] = "active" /\ listing[m] # Absent /\ Reaped(m) = Vacant
      BY <1>0, <2>1, <2>2 DEF RestartOwed, Reaped
    <2>4. m \in Listed /\ m \notin Due
      BY <2>2, <2>3 DEF Starts, Wanted, Listed
    <2>5. running'[m] = Vacant
      BY <2>1, <2>2, <2>3 DEF NextRunning, Stops
    <2> QED BY <2>1, <2>3, <2>4, <2>5
  <1>7. CASE PublishReadsRevision
    BY <1>0, <1>7 DEF PublishReadsRevision, RestartOwed
  <1>8. CASE PublishCounts
    BY <1>0, <1>8 DEF PublishCounts, RestartOwed, Reaped
  <1>9. CASE Start
    BY <1>0, <1>9 DEF Start, NewProcess, RestartOwed
  <1>10. CASE Shutdown \/ Crash
    BY <1>0, <1>10 DEF Shutdown, Crash, RestartOwed
  <1>11. CASE UNCHANGED <<status, syncVars, managerVars, owed>>
    BY <1>0, <1>11 DEF RestartOwed
  <1>12. ASSUME NEW m \in Monitor, NEW i \in Ids, TaskStopsMonitor(m, i)
         PROVE  RestartOwed'
    BY <1>0, <1>12 DEF TaskStopsMonitor, TaskOnly, RestartOwed
  <1>13. CASE \/ \E m \in Monitor : Edit(m) \/ QuietHoursTurn(m)
              \/ UpdateMonitorMaintenance \/ UNCHANGED vars
    BY <1>11, <1>13 DEF Edit, QuietHoursTurn, UpdateMonitorMaintenance, vars
  <1>14. CASE \/ \E s \in Slot, i \in Ids :
                   TaskBegins(s, i) \/ TaskGivesUp(s, i) \/ TaskStops(s, i)
              \/ \E m \in Monitor, i \in Ids : TaskReadsRow(m, i) \/ TaskLeaves(m, i)
    BY <1>11, <1>14 DEF TaskBegins, TaskGivesUp, TaskStops, TaskReadsRow,
       TaskLeaves, TaskOnly
  <1> QED BY <1>1, <1>2, <1>3, <1>4, <1>5, <1>6, <1>7, <1>8, <1>9, <1>10, <1>12,
             <1>13, <1>14 DEF Next, WorkerStep

\* A living goroutine keeps its orders for the first page.
LEMMA SameOrders ==
    ASSUME Resumed,
           \A m \in Monitor, i \in Ids : Alive(m, i)' =>
               /\ Alive(m, i)
               /\ task'[m][i].owed = task[m][i].owed
               /\ task'[m][i].resume = task[m][i].resume
    PROVE  Resumed'
  BY DEF Resumed

\* A task that takes over what is owed since the start is told to resume.
LEMMA NextResumed == Whole /\ [Next]_vars => Resumed'
  <1> SUFFICES ASSUME Whole, [Next]_vars PROVE Resumed'
    OBVIOUS
  <1>0. /\ task \in [Slot -> [Ids -> Task]] /\ Resumed /\ RestartOwed
        /\ \A m \in Monitor : m \in Slot
    BY DEF Whole, TaskInv, TypeOK, Slot
  <1>1. CASE SyncReconciles
    <2> SUFFICES ASSUME NEW m \in Monitor, NEW i \in Ids, Alive(m, i)',
                        "restart" \in task'[m][i].owed
                 PROVE  task'[m][i].resume
      BY DEF Resumed
    <2>1. task'[m][i] = NextTask(m, i) /\ task[m][i] \in Task /\ pc = "reconcile"
      BY <1>0, <1>1 DEF SyncReconciles
    <2>2. CASE Starts(m) /\ i = FreshId(m)
      <3>1. "restart" \in owed[m] /\ task'[m][i].resume = Resumes(m)
        BY <2>1, <2>2 DEF NextTask
      <3>2. m \in Due
        BY <1>0, <2>2 DEF Starts, Wanted
      <3>3. ~synced \/ m \in scheduledPaused
        BY <1>0, <2>1, <3>1 DEF RestartOwed
      <3> QED BY <3>1, <3>2, <3>3 DEF Resumes
    <2>3. CASE ~(Starts(m) /\ i = FreshId(m))
      <3>1. /\ task'[m][i].phase = task[m][i].phase
            /\ task'[m][i].owed = task[m][i].owed
            /\ task'[m][i].resume = task[m][i].resume
        BY <2>1, <2>3 DEF NextTask, Task
      <3> QED BY <1>0, <3>1 DEF Resumed, Alive
    <2> QED BY <2>2, <2>3
  <1>2. CASE UNCHANGED task
    BY <1>0, <1>2, SameOrders DEF Alive
  <1>3. CASE \/ \E m \in Monitor :
                  Activate(m) \/ Pause(m) \/ Edit(m) \/ QuietHoursTurn(m)
             \/ EnableMonitorMaintenance \/ UpdateMonitorMaintenance
             \/ DisableMonitorMaintenance \/ SyncReadsMaintenance
             \/ SyncListsMonitors \/ PublishReadsRevision \/ PublishCounts
             \/ UNCHANGED vars
    BY <1>2, <1>3 DEF Activate, Pause, Edit, QuietHoursTurn,
       EnableMonitorMaintenance, UpdateMonitorMaintenance,
       DisableMonitorMaintenance, SyncReadsMaintenance, SyncListsMonitors,
       PublishReadsRevision, PublishCounts, vars
  <1>4. CASE Start \/ Crash
    BY <1>0, <1>4, NewProcessTypes DEF Start, Crash, Resumed
  <1>5. CASE Shutdown
    <2> SUFFICES ASSUME NEW m \in Monitor, NEW i \in Ids, Alive(m, i)'
                 PROVE  /\ Alive(m, i)
                        /\ task'[m][i].owed = task[m][i].owed
                        /\ task'[m][i].resume = task[m][i].resume
      BY <1>0, SameOrders
    <2>1. task[m][i] \in Task
      BY <1>0
    <2>2. task'[m][i] = IF Alive(m, i) THEN [task[m][i] EXCEPT !.cancelled = TRUE]
                        ELSE task[m][i]
      BY <1>0, <1>5 DEF Shutdown
    <2> QED BY <2>1, <2>2 DEF Task, Alive
  <1>6. ASSUME NEW s \in Slot, NEW i \in Ids,
               \/ task' = [task EXCEPT ![s][i] = Done]
               \/ \E p \in {"watching", "leaving"} :
                     /\ Alive(s, i)
                     /\ task' = [task EXCEPT ![s][i].phase = p]
        PROVE  Resumed'
    <2> SUFFICES ASSUME NEW m \in Monitor, NEW j \in Ids, Alive(m, j)'
                 PROVE  /\ Alive(m, j)
                        /\ task'[m][j].owed = task[m][j].owed
                        /\ task'[m][j].resume = task[m][j].resume
      BY <1>0, SameOrders
    <2>1. task[m][j] \in Task /\ m \in Slot
      BY <1>0
    <2>2. CASE m = s /\ j = i
      BY <1>0, <1>6, <2>1, <2>2, EmptyTypes DEF Alive, Task
    <2>3. CASE ~(m = s /\ j = i)
      <3>1. task'[m][j] = task[m][j]
        BY <1>0, <1>6, <2>1, <2>3
      <3> QED BY <3>1 DEF Alive
    <2> QED BY <2>2, <2>3
  <1>7. ASSUME NEW s \in Slot, NEW i \in Ids,
               \/ TaskBegins(s, i) \/ TaskGivesUp(s, i) \/ TaskStops(s, i)
               \/ TaskReadsRow(s, i) \/ TaskStopsMonitor(s, i) \/ TaskLeaves(s, i)
        PROVE  Resumed'
    BY <1>6, <1>7 DEF TaskBegins, TaskGivesUp, TaskStops, TaskReadsRow,
       TaskStopsMonitor, TaskLeaves, Alive
  <1> QED BY <1>0, <1>1, <1>3, <1>4, <1>5, <1>7 DEF Next, WorkerStep

\* A list that was cut short stays on the account.
LEMMA PartialStays ==
    ASSUME TaskInv, [Next]_vars, spent'.partial = 0
    PROVE  spent.partial = 0
  <1>1. spent \in [Bounded -> Nat]
    BY DEF TaskInv, TypeOK
  <1>2. \/ UNCHANGED spent
        \/ \E what \in Bounded : Spend(what)
    BY DEF Next, WorkerStep, vars, Bounded, dbVars, syncVars, managerVars,
       ghostVars, Activate, Pause, Edit, QuietHoursTurn,
       EnableMonitorMaintenance, UpdateMonitorMaintenance,
       DisableMonitorMaintenance, SyncReadsMaintenance, SyncListsMonitors,
       SyncReconciles, PublishReadsRevision, PublishCounts, Start, Shutdown,
       Crash, TaskBegins, TaskGivesUp, TaskStops, TaskReadsRow,
       TaskStopsMonitor, TaskLeaves, TaskOnly
  <1> QED BY <1>1, <1>2 DEF Spend, Bounded

\* manager.go, initialWorkerSync and scheduledPaused: after any restart the
\* first task of a monitor resumes, as long as no list was cut short.
THEOREM RestartContinues == Spec => []RestartResumes
  <1>1. Init => RestartInv
    BY InitRestartInv
  <1>2. RestartInv /\ [Next]_vars => RestartInv'
    <2> SUFFICES ASSUME RestartInv, [Next]_vars PROVE RestartInv'
      OBVIOUS
    <2>1. TaskInv' /\ Versioned'
      BY NextTaskInv, NextVersioned DEF RestartInv
    <2>2. ASSUME spent'.partial = 0 PROVE Whole'
      <3>1. Whole
        BY <2>2, PartialStays DEF RestartInv
      <3> QED BY <2>1, <2>2, <3>1, NextRestartOwed, NextResumed DEF Whole
    <2> QED BY <2>1, <2>2 DEF RestartInv
  <1>3. RestartInv => RestartResumes
    BY DEF RestartInv, Whole, Resumed, RestartResumes
  <1> QED BY <1>1, <1>2, <1>3, PTL DEF Spec
=============================================================================
