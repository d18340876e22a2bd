--------------------------- MODULE MonitorManager ---------------------------
(***************************************************************************)
(* The monitor manager of the worker against the monitors table, and the   *)
(* maintenance switch of the control center against the manager.           *)
(*                                                                         *)
(*   apps/worker/internal/scraper/manager.go   Sync, RuntimeCounts, StopAll*)
(*   apps/worker/internal/scraper/engine.go    the exits of MonitorTask    *)
(*   apps/worker/cmd/main.go                   runMonitorWorker            *)
(*   apps/control-center/src/actions/admin.ts  the maintenance actions     *)
(*                                                                         *)
(* A slot holds at most one managed task: a slot per monitor, and one per  *)
(* structural key for the discovery task its monitors share.  A slot's     *)
(* entry in `running` and the goroutines themselves are kept apart.        *)
(* Versions stand for configuration fingerprints, revisions for the random *)
(* identifiers of the maintenance setting.                                 *)
(***************************************************************************)
EXTENDS Integers, FiniteSets

CONSTANTS
    Monitor,
    Admins,       \* the monitors an administrator owns
    Demos,        \* the monitors with a demo_expires_at
    Key,          \* structural keys of discovery; {} when discovery is off
    Discovered,   \* the monitors whose proxy source discovery allows
    KeyOf,        \* [Discovered -> Key]
    MaxEdits,     \* bound: configurations a monitor may have
    MaxToggles,   \* bound: activations and pauses by members
    MaxRevision,  \* bound: writes of the maintenance setting
    MaxTurns,     \* bound: turns of the quiet hours
    MaxFaults,    \* bound: failed reads and writes of the database
    MaxPartial,   \* bound: monitor lists cut short by the connection
    MaxExits,     \* bound: tasks that stop by themselves
    MaxCrashes    \* bound: ends of the worker process

Slot == Monitor \cup Key

ASSUME ManagerAssumption ==
    /\ Admins \subseteq Monitor
    /\ Demos \subseteq Monitor
    /\ Discovered \subseteq Monitor
    /\ KeyOf \in [Discovered -> Key]
    /\ Monitor \cap Key = {}
    /\ IsFiniteSet(Monitor) /\ IsFiniteSet(Key)
    /\ MaxPartial \in Nat

VARIABLES
    (* the database *)
    status,       \* monitors.status; paused for inactivity counts as paused
    version,      \* the configuration of each monitor
    maintenance,  \* app_settings "monitor_maintenance": on and its revision
    runtime,      \* app_settings "monitor_worker_runtime"
    (* the clock *)
    quiet,        \* the quiet hours a monitor is in: "no", "slow" or "pause"
    (* the manager *)
    pc,           \* where runMonitorWorker stands
    seen,         \* what Sync read of the maintenance switch
    listing,      \* what Sync read of the active monitors
    stamp,        \* the revision publishMonitorWorkerRuntime read
    running,      \* Manager.running and discoveryRunning
    scheduledPaused,
    synced,       \* initialSyncDone
    maintenanceOn,  \* with maintenanceSeen: FALSE until it has been seen on
    (* the goroutines *)
    task,
    (* history *)
    owed,         \* why the next task of an active monitor is to continue an
                  \* earlier one; nothing once the monitor is paused
    held,         \* paused by maintenance, and by nobody else since
    spent         \* what is used up of the bounds

dbVars      == <<status, version, maintenance, runtime>>
syncVars    == <<pc, seen, listing, stamp>>
managerVars == <<running, scheduledPaused, synced, maintenanceOn>>
ghostVars   == <<owed, held>>
vars == <<dbVars, quiet, syncVars, managerVars, task, ghostVars, spent>>

-----------------------------------------------------------------------------
(* Tasks *)

Ids     == 1..2
Absent  == 0     \* a monitor the list does not have
Unread  == "unread"
NoRevision == 0  \* "maintenance-disabled-v1"

Reasons == {"restart", "config", "maintenance"}
Configs == SUBSET (Monitor \X Nat)

\* managedTask, and what a goroutine knows.
Entry == [id : Ids \cup {0}, cfg : Configs, stopping : BOOLEAN]
Task  == [phase : {"starting", "watching", "leaving", "done"}, cfg : Configs,
          cancelled : BOOLEAN, resume : BOOLEAN, owed : SUBSET Reasons]

Vacant == [id |-> 0, cfg |-> {}, stopping |-> FALSE]
Done   == [phase |-> "done", cfg |-> {}, cancelled |-> FALSE,
           resume |-> FALSE, owed |-> {}]

Alive(s, i) == task[s][i].phase # "done"

\* The monitors a task works for.
Serves(s, i) == {p[1] : p \in task[s][i].cfg}

\* A goroutine identity no living goroutine of the slot has.
FreshId(s) == CHOOSE i \in Ids : ~Alive(s, i)

\* The switch as control-center/src/lib/monitor-maintenance.ts shows it to the
\* administrator.  A stale heartbeat only ever makes it confirmation_pending.
MaintenanceStatus ==
    IF ~maintenance.on THEN "off"
    ELSE IF runtime.revision # maintenance.revision THEN "confirmation_pending"
    ELSE IF runtime.tasks = 0 THEN "active" ELSE "draining"

Bounded == {"toggles", "turns", "faults", "partial", "exits", "crashes"}

Spend(what) == spent' = [spent EXCEPT ![what] = @ + 1]

\* Sync returns: its local variables are gone.
Forgotten == seen' = Unread /\ listing' = [m \in Monitor |-> Absent]

NewProcess ==
    /\ Forgotten
    /\ stamp' = NoRevision
    /\ running' = [s \in Slot |-> Vacant]
    /\ scheduledPaused' = {}
    /\ synced' = FALSE
    /\ maintenanceOn' = FALSE
    /\ task' = [s \in Slot |-> [i \in Ids |-> Done]]

Init ==
    /\ status \in [Monitor -> {"active", "paused"}]
    /\ version = [m \in Monitor |-> 1]
    /\ maintenance = [on |-> FALSE, revision |-> NoRevision]
    /\ runtime = [revision |-> NoRevision, tasks |-> 0]
    /\ quiet = [m \in Monitor |-> "no"]
    /\ pc = "down"
    /\ seen = Unread
    /\ listing = [m \in Monitor |-> Absent]
    /\ stamp = NoRevision
    /\ running = [s \in Slot |-> Vacant]
    /\ scheduledPaused = {}
    /\ synced = FALSE
    /\ maintenanceOn = FALSE
    /\ task = [s \in Slot |-> [i \in Ids |-> Done]]
    /\ owed = [m \in Monitor |-> {}]
    /\ held = {}
    /\ spent = [b \in Bounded |-> 0]

-----------------------------------------------------------------------------
(* Members: each action is one transaction under the global activation     *)
(* lock.  The page a member acts on may show an older status.              *)

\* Mutant: maintenance does not keep members from activating monitors.
CanActivate_Anyone(m) == TRUE

CanActivate(m) == ~maintenance.on \/ m \in Admins

\* toggleMonitorStatus, and the demo and creation forms.
Activate(m) ==
    /\ spent.toggles < MaxToggles
    /\ status[m] # "active"
    /\ CanActivate(m)
    /\ status' = [status EXCEPT ![m] = "active"]
    /\ owed' = [owed EXCEPT ![m] = {}]
    /\ held' = held \ {m}
    /\ Spend("toggles")
    /\ UNCHANGED <<version, maintenance, runtime, quiet, syncVars,
                   managerVars, task>>

\* toggleMonitorStatus, deleteMonitor, or the inactivity policy.
Pause(m) ==
    /\ spent.toggles < MaxToggles
    /\ status[m] # "paused"
    /\ status' = [status EXCEPT ![m] = "paused"]
    /\ owed' = [owed EXCEPT ![m] = {}]
    /\ held' = held \ {m}
    /\ Spend("toggles")
    /\ UNCHANGED <<version, maintenance, runtime, quiet, syncVars,
                   managerVars, task>>

\* updateMonitor, or a new list of server proxies: another fingerprint.
Edit(m) ==
    /\ version[m] < MaxEdits
    /\ version' = [version EXCEPT ![m] = @ + 1]
    /\ UNCHANGED <<status, maintenance, runtime, quiet, syncVars,
                   managerVars, task, ghostVars, spent>>

\* The clock enters or leaves the quiet hours of a monitor.
QuietHoursTurn(m) ==
    /\ spent.turns < MaxTurns
    /\ \E q \in {"no", "slow", "pause"} \ {quiet[m]} :
          quiet' = [quiet EXCEPT ![m] = q]
    /\ Spend("turns")
    /\ UNCHANGED <<dbVars, syncVars, managerVars, task, ghostVars>>

-----------------------------------------------------------------------------
(* The administrator *)

SetMaintenance(on) ==
    /\ maintenance.revision < MaxRevision
    /\ maintenance' = [on |-> on, revision |-> maintenance.revision + 1]

EnableMonitorMaintenance ==
    LET pausing == {m \in Monitor \ Admins : status[m] = "active"} IN
    /\ ~maintenance.on
    /\ SetMaintenance(TRUE)
    /\ status' = [m \in Monitor |-> IF m \in pausing
                                    THEN "maintenance_paused" ELSE status[m]]
    /\ held' = held \cup pausing
    /\ owed' = [m \in Monitor |-> IF m \in pausing THEN {} ELSE owed[m]]
    /\ UNCHANGED <<version, runtime, quiet, syncVars, managerVars, task, spent>>

UpdateMonitorMaintenance ==
    /\ maintenance.on
    /\ SetMaintenance(TRUE)
    /\ UNCHANGED <<status, version, runtime, quiet, syncVars, managerVars,
                   task, ghostVars, spent>>

\* The monitor limits and the inactivity policy decide which monitors resume.
DisableMonitorMaintenance ==
    /\ maintenance.on
    /\ SetMaintenance(FALSE)
    /\ \E resuming \in SUBSET {m \in Monitor : status[m] = "maintenance_paused"} :
         /\ status' = [m \in Monitor |->
              IF m \in resuming THEN "active"
              ELSE IF status[m] = "maintenance_paused" THEN "paused"
              ELSE status[m]]
         /\ owed' = [m \in Monitor |->
              owed[m] \cup (IF m \in resuming THEN {"maintenance"} ELSE {})]
    /\ held' = {}
    /\ UNCHANGED <<version, runtime, quiet, syncVars, managerVars, task, spent>>

-----------------------------------------------------------------------------
(* Sync *)

\* readMaintenanceEnabled; a failed or invalid read keeps the last state.
SyncReadsMaintenance ==
    /\ pc = "idle"
    /\ pc' = "list"
    /\ \/ /\ seen' = IF maintenance.on THEN "on" ELSE "off"
          /\ UNCHANGED spent
       \/ /\ spent.faults < MaxFaults
          /\ seen' = Unread
          /\ Spend("faults")
    /\ UNCHANGED <<dbVars, quiet, listing, stamp, managerVars, task, ghostVars>>

ActiveRows == {m \in Monitor : status'[m] = "active"}

\* PauseExpiredDemoMonitors, whose own failure is only logged, and
\* GetActiveMonitors.  A failed list ends Sync.  The list ends silently when
\* the connection breaks between two rows: GetActiveMonitors does not look
\* at rows.Err.
SyncListsMonitors ==
    /\ pc = "list"
    /\ \E expired \in SUBSET {m \in Demos : status[m] = "active"} :
          /\ status' = [m \in Monitor |-> IF m \in expired THEN "paused"
                                          ELSE status[m]]
          /\ owed' = [m \in Monitor |-> IF m \in expired THEN {} ELSE owed[m]]
    /\ \/ /\ listing' = [m \in Monitor |-> IF m \in ActiveRows
                                           THEN version[m] ELSE Absent]
          /\ pc' = "reconcile"
          /\ UNCHANGED <<seen, spent>>
       \/ /\ spent.partial < MaxPartial
          /\ \E cut \in SUBSET ActiveRows :
                listing' = [m \in Monitor |-> IF m \in cut
                                              THEN version[m] ELSE Absent]
          /\ pc' = "reconcile"
          /\ UNCHANGED seen
          /\ Spend("partial")
       \/ /\ spent.faults < MaxFaults
          /\ pc' = "revision"
          /\ Forgotten
          /\ Spend("faults")
    /\ UNCHANGED <<version, maintenance, runtime, quiet, stamp,
                   managerVars, task, held>>

\* Mutant: an entry goes with the cancellation, not with the goroutine.
Reaped_Cancelled(s) ==
    IF running[s] # Vacant /\ (running[s].stopping \/ ~Alive(s, running[s].id))
    THEN Vacant ELSE running[s]

\* Mutant: a task that was cancelled is never taken out.
Reaped_Kept(s) ==
    IF running[s] # Vacant /\ ~running[s].stopping /\ ~Alive(s, running[s].id)
    THEN Vacant ELSE running[s]

\* reapFinishedTasksLocked: an entry goes when its goroutine has returned.
Reaped(s) == IF running[s] # Vacant /\ ~Alive(s, running[s].id)
             THEN Vacant ELSE running[s]

Listed == {m \in Monitor : listing[m] # Absent}

\* The monitors Sync wants a task for, outside their pausing quiet hours.
Due == {m \in Listed : quiet[m] # "pause"}

\* Mutant: discovery keeps the monitors in their quiet hours.
Wanted_Quiet(s) ==
    IF s \in Monitor THEN {<<m, listing[m]>> : m \in Due \cap {s}}
    ELSE {<<m, listing[m]>> : m \in {n \in Listed \cap Discovered : KeyOf[n] = s}}

\* What each slot should run: the configuration, {} for nothing.  Discovery
\* leaves out every monitor in quiet hours, the slowed ones too.
Wanted(s) ==
    IF s \in Monitor THEN {<<m, listing[m]>> : m \in Due \cap {s}}
    ELSE {<<m, listing[m]>> :
             m \in {n \in Listed \cap Discovered :
                       KeyOf[n] = s /\ quiet[n] = "no"}}

MaintenanceJustEnded == seen = "off" /\ maintenanceOn

\* Mutant: what stood before the process started is not known to it.
Resumes_NoStart(s) == s \in Due /\ (MaintenanceJustEnded \/ s \in scheduledPaused)

\* prepareMonitorResume: the first page is diffed, not taken as a baseline.
Resumes(s) == s \in Due /\ (~synced \/ MaintenanceJustEnded
                              \/ s \in scheduledPaused)

Starts(s) == Reaped(s) = Vacant /\ Wanted(s) # {}
Keeps(s)  == Reaped(s) # Vacant /\ ~Reaped(s).stopping
                                /\ Reaped(s).cfg = Wanted(s)
\* Mutant: only removed monitors are stopped; a new configuration is missed.
Stops_Removed(s) == Reaped(s) # Vacant /\ Wanted(s) = {}

Stops(s)  == Reaped(s) # Vacant /\ Reaped(s).cfg # Wanted(s)

\* A task is started only in an empty slot.  A changed configuration cancels
\* the task and leaves the start to a later Sync.
NextRunning(s) ==
    IF Starts(s)
    THEN [id |-> FreshId(s), cfg |-> Wanted(s), stopping |-> FALSE]
    ELSE IF Stops(s) THEN [Reaped(s) EXCEPT !.stopping = TRUE]
    ELSE Reaped(s)

NextTask(s, i) ==
    IF Starts(s) /\ i = FreshId(s)
    THEN [phase |-> "starting", cfg |-> Wanted(s), cancelled |-> FALSE,
          resume |-> Resumes(s),
          owed |-> IF s \in Monitor THEN owed[s] ELSE {}]
    ELSE IF Stops(s) /\ i = Reaped(s).id /\ Alive(s, i)
    THEN [task[s][i] EXCEPT !.cancelled = TRUE]
    ELSE task[s][i]

\* The task that starts takes over what is owed; a task that simply goes on
\* has nothing to make up for.
NextOwed(m) ==
    IF Starts(m) \/ Keeps(m) THEN {}
    ELSE IF m \in Due /\ Stops(m) /\ ~Reaped(m).stopping
    THEN owed[m] \cup {"config"}
    ELSE owed[m]

\* The section of Sync under the manager's mutex.
SyncReconciles ==
    /\ pc = "reconcile"
    /\ pc' = "revision"
    /\ running' = [s \in Slot |-> NextRunning(s)]
    /\ task' = [s \in Slot |-> [i \in Ids |-> NextTask(s, i)]]
    /\ scheduledPaused' = Listed \ Due
    /\ Forgotten
    /\ synced' = TRUE
    /\ maintenanceOn' = IF seen = Unread THEN maintenanceOn ELSE seen = "on"
    /\ owed' = [m \in Monitor |-> NextOwed(m)]
    /\ UNCHANGED <<dbVars, quiet, stamp, held, spent>>

-----------------------------------------------------------------------------
(* publishMonitorWorkerRuntime *)

PublishReadsRevision ==
    /\ pc = "revision"
    /\ pc' = "publish"
    /\ \/ stamp' = maintenance.revision /\ UNCHANGED spent
       \/ spent.faults < MaxFaults /\ stamp' = NoRevision /\ Spend("faults")
    /\ UNCHANGED <<dbVars, quiet, seen, listing, managerVars, task, ghostVars>>

\* RuntimeCounts, which reaps, and the write of the heartbeat.
PublishCounts ==
    /\ pc = "publish"
    /\ pc' = "idle"
    /\ running' = [s \in Slot |-> Reaped(s)]
    /\ stamp' = NoRevision
    /\ \/ /\ runtime' = [revision |-> stamp,
                         tasks |-> Cardinality({s \in Slot : Reaped(s) # Vacant})]
          /\ UNCHANGED spent
       \/ spent.faults < MaxFaults /\ UNCHANGED runtime /\ Spend("faults")
    /\ UNCHANGED <<status, version, maintenance, quiet, seen, listing,
                   scheduledPaused, synced, maintenanceOn, task, ghostVars>>

-----------------------------------------------------------------------------
(* Tasks *)

TaskOnly == UNCHANGED <<version, maintenance, runtime, quiet, syncVars,
                        managerVars, held>>

\* There are proxies to work with: the task enters its loop.
TaskBegins(s, i) ==
    /\ task[s][i].phase = "starting"
    /\ task' = [task EXCEPT ![s][i].phase = "watching"]
    /\ TaskOnly /\ UNCHANGED <<status, owed, spent>>

\* There are none: MonitorTask and DiscoveryTask return.
TaskGivesUp(s, i) ==
    /\ spent.exits < MaxExits
    /\ task[s][i].phase = "starting"
    /\ task' = [task EXCEPT ![s][i] = Done]
    /\ Spend("exits")
    /\ TaskOnly /\ UNCHANGED <<status, owed>>

\* The task sees that its context is done.
TaskStops(s, i) ==
    /\ Alive(s, i) /\ task[s][i].cancelled
    /\ task' = [task EXCEPT ![s][i] = Done]
    /\ TaskOnly /\ UNCHANGED <<status, owed, spent>>

\* Every 20 checks MonitorTask reads its row, and returns when the monitor is
\* not active or has another configuration.
TaskReadsRow(m, i) ==
    /\ task[m][i].phase = "watching"
    /\ status[m] # "active" \/ <<m, version[m]>> \notin task[m][i].cfg
    /\ task' = [task EXCEPT ![m][i] = Done]
    /\ TaskOnly /\ UNCHANGED <<status, owed, spent>>

\* Too many failed fetches, or the proxy group's traffic is used up:
\* SetMonitorStatus writes the row whatever it holds.  The fetch a cancelled
\* context ends counts as a failed one.
TaskStopsMonitor(m, i) ==
    /\ spent.exits < MaxExits
    /\ task[m][i].phase = "watching"
    /\ \E s \in {"error", "paused"} : status' = [status EXCEPT ![m] = s]
    /\ task' = [task EXCEPT ![m][i].phase = "leaving"]
    /\ owed' = [owed EXCEPT ![m] = {}]
    /\ Spend("exits")
    /\ TaskOnly

\* The event and the notification are recorded: the task returns.
TaskLeaves(m, i) ==
    /\ task[m][i].phase = "leaving"
    /\ task' = [task EXCEPT ![m][i] = Done]
    /\ TaskOnly /\ UNCHANGED <<status, owed, spent>>

-----------------------------------------------------------------------------
(* The process *)

\* The first Sync of runMonitorWorker follows at once.  A task on record at
\* the start has lost its history with the last process.
Start ==
    /\ pc = "down"
    /\ pc' = "idle"
    /\ NewProcess
    /\ owed' = [m \in Monitor |-> IF status[m] = "active" THEN {"restart"}
                                  ELSE {}]
    /\ UNCHANGED <<dbVars, quiet, held, spent>>

\* SIGTERM: StopAll cancels every task, and the process ends a second later,
\* whether they have returned or not.
Shutdown ==
    /\ spent.crashes < MaxCrashes
    /\ pc = "idle"
    /\ pc' = "down"
    /\ running' = [s \in Slot |-> IF Reaped(s) = Vacant THEN Vacant
                                  ELSE [Reaped(s) EXCEPT !.stopping = TRUE]]
    /\ task' = [s \in Slot |-> [i \in Ids |->
                  IF Alive(s, i) THEN [task[s][i] EXCEPT !.cancelled = TRUE]
                  ELSE task[s][i]]]
    /\ Spend("crashes")
    /\ UNCHANGED <<dbVars, quiet, seen, listing, stamp, scheduledPaused,
                   synced, maintenanceOn, ghostVars>>

Crash ==
    /\ spent.crashes < MaxCrashes
    /\ pc # "down"
    /\ pc' = "down"
    /\ NewProcess
    /\ Spend("crashes")
    /\ UNCHANGED <<dbVars, quiet, ghostVars>>

-----------------------------------------------------------------------------
WorkerStep ==
    \/ SyncReadsMaintenance \/ SyncListsMonitors \/ SyncReconciles
    \/ PublishReadsRevision \/ PublishCounts \/ Start

Next ==
    \/ WorkerStep
    \/ Shutdown \/ Crash
    \/ \E s \in Slot, i \in Ids :
          TaskBegins(s, i) \/ TaskGivesUp(s, i) \/ TaskStops(s, i)
    \/ \E m \in Monitor, i \in Ids :
          TaskReadsRow(m, i) \/ TaskStopsMonitor(m, i) \/ TaskLeaves(m, i)
    \/ \E m \in Monitor : Activate(m) \/ Pause(m) \/ Edit(m) \/ QuietHoursTurn(m)
    \/ EnableMonitorMaintenance \/ UpdateMonitorMaintenance
    \/ DisableMonitorMaintenance

Spec == Init /\ [][Next]_vars

\* The ticker keeps the worker's loop going, the service manager restarts the
\* process, and a task whose context is done returns: its fetches carry the
\* context and a timeout.
FairSpec ==
    /\ Spec
    /\ WF_vars(WorkerStep)
    /\ \A s \in Slot, i \in Ids : WF_vars(TaskBegins(s, i))
    /\ \A s \in Slot, i \in Ids : WF_vars(TaskStops(s, i))
    /\ \A m \in Monitor, i \in Ids : WF_vars(TaskLeaves(m, i))

-----------------------------------------------------------------------------
(* Properties *)

\* Every variable keeps to its domain (manager.go, struct Manager).
TypeOK ==
    /\ status \in [Monitor -> {"active", "paused", "maintenance_paused", "error"}]
    /\ version \in [Monitor -> Nat]
    /\ maintenance \in [on : BOOLEAN, revision : Nat]
    /\ runtime \in [revision : Nat, tasks : Nat]
    /\ quiet \in [Monitor -> {"no", "slow", "pause"}]
    /\ pc \in {"down", "idle", "list", "reconcile", "revision", "publish"}
    /\ seen \in {Unread, "on", "off"}
    /\ listing \in [Monitor -> Nat]
    /\ stamp \in Nat
    /\ running \in [Slot -> Entry]
    /\ scheduledPaused \subseteq Monitor
    /\ synced \in BOOLEAN /\ maintenanceOn \in BOOLEAN
    /\ task \in [Slot -> [Ids -> Task]]
    /\ owed \in [Monitor -> SUBSET Reasons]
    /\ held \subseteq Monitor
    /\ spent \in [Bounded -> Nat]

\* No two goroutines ever work on one monitor or one discovery key, however
\* stops, restarts, self-made exits and reaping interleave: a second one would
\* double the requests and split the baseline.
OneTaskPerSlot ==
    \A s \in Slot : \A i, j \in Ids : Alive(s, i) /\ Alive(s, j) => i = j

\* When the control center shows "active", no goroutine works any longer for
\* a monitor that maintenance pauses, although the listing a Sync works from
\* may be older than the switch (getMonitorMaintenanceStatus).
ConfirmedMeansDrained ==
    MaintenanceStatus = "active" =>
        \A s \in Slot, i \in Ids : Alive(s, i) => Serves(s, i) \subseteq Admins

\* The first task a monitor gets after a restart of the worker continues where
\* the last process stopped, also when its quiet hours or failed Syncs delay
\* it (as long as no list is cut short).
RestartResumes ==
    spent.partial = 0 =>
        \A m \in Monitor, i \in Ids :
            Alive(m, i) /\ "restart" \in task[m][i].owed => task[m][i].resume

\* A task watches a monitor with its current configuration.
Watched(m) == \E i \in Ids : /\ Alive(m, i) /\ ~task[m][i].cancelled
                             /\ <<m, version[m]>> \in task[m][i].cfg

ToWatch(m) == status[m] = "active" /\ quiet[m] # "pause"

\* An active monitor outside its pausing quiet hours is eventually watched
\* with the configuration it has, whatever edits, drains, crashes and failed
\* reads came before.
ActiveIsWatched == \A m \in Monitor :
    ToWatch(m) ~> (Watched(m) \/ ~ToWatch(m))

\* A monitor that is paused, or removed, or in its pausing quiet hours is
\* eventually left alone, discovery included.
InactiveIsLeft == \A m \in Monitor :
    ~ToWatch(m) ~>
        \/ ToWatch(m)
        \/ \A s \in Slot, i \in Ids : Alive(s, i) => m \notin Serves(s, i)

\* Maintenance is eventually confirmed as drained, unless it ends or an
\* administrator's own monitor keeps running.
DrainIsConfirmed ==
    maintenance.on ~> \/ MaintenanceStatus \in {"active", "off"}
                      \/ \E m \in Admins : status[m] = "active"

\* manager.go: "A config refresh is a continuation of an existing monitor.
\* Treat its first catalog response as a resume".
ConfigRefreshResumes ==
    \A m \in Monitor, i \in Ids :
        Alive(m, i) /\ "config" \in task[m][i].owed => task[m][i].resume

\* TestMaintenanceEndIsTreatedAsSilentResume: "expected maintenance resume to
\* suppress startup notices and preserve catch-up behavior".
MaintenanceEndResumes ==
    \A m \in Monitor, i \in Ids :
        Alive(m, i) /\ "maintenance" \in task[m][i].owed => task[m][i].resume

\* monitor-maintenance.ts: "All monitors are safely paused and will resume
\* automatically when maintenance is complete."  A monitor that maintenance
\* has paused stays paused for maintenance.
MaintenanceHolds ==
    \A m \in held : status[m] = "maintenance_paused"
=============================================================================
